---- MODULE Spec2Model ----
(***************************************************************************)
(* Storage core of the node: the lookback chain index                      *)
(* (blockchain/chain/src/store/index.rs), the rolling-store garbage        *)
(* collector (node/db/src/rolling/gc.rs) and the archive-file block store  *)
(* (src/db/car/plain.rs).                                                  *)
(*                                                                         *)
(* Each subsystem has its own specification over its own variables; the    *)
(* variables of the other subsystems keep their initial values.            *)
(***************************************************************************)
EXTENDS Integers, Sequences, FiniteSets, TLC

VARIABLES
    \* ---- ChainIndex (index.rs) ----
    epochs,       \* the chain: epochs[k] is the epoch of the tipset with key k, genesis first
    missing,      \* keys of tipsets the blockstore cannot load
    checkpoints,  \* keys of tipsets whose hash is an entry of TIPSET_CHECKPOINTS
    skip_cache,   \* ChainIndex::skip_cache, an LRU: most recently used entry first
    call,         \* the call in progress / just returned on the ChainIndex
    lookups,      \* the get_tipset_by_height calls in flight, one frame per caller
    scan,         \* the iteration counter of a long lookback loop and its yields
    \* ---- RollingDB and DbGarbageCollector (gc.rs) ----
    head,         \* epoch of the head tipset, what get_tipset() returns
    fault,        \* a block of the chain that is not stored, or stored undecodable
    io_faults,    \* I/O failures the environment may still produce
    parts,        \* partition id -> set of the CIDs it holds
    current,      \* id of the current partition (the old one is current - 1)
    lock,         \* DbGarbageCollector::lock: the set of its holders (at most one)
    passive,      \* position of collect_loop_passive
    gc_rx,        \* the GC trigger channel: responders waiting to be received
    responses,    \* responder -> the Result it received ("none" before)
    ninv,         \* number of collect_once invocations started so far
    inv,          \* invocation -> its collect_once frame
    chan,         \* invocation -> its block channel (tx, rx)
    writer,       \* invocation -> its write task
    \* ---- PlainCar (car/plain.rs) ----
    index,        \* PlainCar::index: the CIDs of the blocks of the archive file
    write_cache,  \* PlainCar::write_cache: CID -> bytes, NoBytes where vacant
    index_lock,   \* guards held on the RwLock of index: <<thread, "read" | "write">>
    cache_lock,   \* guards held on the RwLock of write_cache
    thread,       \* thread -> the Blockstore call it is in
    acked,        \* <<cid, bytes>> of the put_keyed calls that have returned Ok,
                  \* for the CIDs that are not in the index
    \* ---- PlainCar::new over an archive file (car/plain.rs) ----
    car_file,     \* the archive file: what it was built from and its bytes
    plain,        \* the Result of PlainCar::new(reader) over the file
    fetched,      \* the last Blockstore::get on the store just built
    \* ---- RollingStore and ProxyStore (rolling_store.rs, proxy.rs) ----
    capacity,           \* RollingStore::capacity
    rolling,            \* the partitions there are (ROLLING of memory.rs): index -> key -> value
    persistent,         \* ProxyStoreInner::persistent: key -> value
    partition_cache,    \* RollingStore::cache: the indices of the open partitions
    last_valid_access,  \* the open partitions, the one accessed longest ago first
    flushed,            \* the partitions flush was called on
    caller,             \* caller -> its get_writable_store call and the handle it holds
    last,               \* the last call that returned, and what it returned
    \* ---- CidHashSet (ipld/src/cid_hashset.rs) ----
    hasher,       \* the hasher of the set: CID -> its u64 hash
    hashes,       \* CidHashSet.0: the hashes stored
    inserted,     \* the CIDs insert was called with
    answer,       \* the last call on the set, and what it returned
    snapshot,     \* a walk_snapshot call whose seen-set is the CidHashSet
    \* ---- Database migrations (db/migration/migration_map.rs) ----
    migrations_map,  \* the MigrationsMap: its (from, to) entries in insertion order
    chain            \* the last create_migration_chain_from_migrations call and its Result

ixvars == <<epochs, missing, checkpoints, skip_cache, call, lookups, scan>>

gcvars == <<head, fault, io_faults, parts, current, lock, passive, gc_rx, responses,
            ninv, inv, chan, writer>>

carvars == <<index, write_cache, index_lock, cache_lock, thread, acked>>

filevars == <<car_file, plain, fetched>>

rsvars == <<capacity, rolling, persistent, partition_cache, last_valid_access,
            flushed, caller, last>>

setvars == <<hasher, hashes, inserted, answer, snapshot>>

migvars == <<migrations_map, chain>>

vars == <<ixvars, gcvars, carvars, filevars, rsvars, setvars, migvars>>

\* What the actions of one subsystem leave alone: the other subsystems.
offix == <<gcvars, carvars, filevars, rsvars, setvars, migvars>>
offgc == <<ixvars, carvars, filevars, rsvars, setvars, migvars>>
offcar == <<ixvars, gcvars, filevars, rsvars, setvars, migvars>>
offfile == <<ixvars, gcvars, carvars, rsvars, setvars, migvars>>
offrs == <<ixvars, gcvars, carvars, filevars, setvars, migvars>>
offcid == <<ixvars, gcvars, carvars, filevars, rsvars, migvars>>
offmig == <<ixvars, gcvars, carvars, filevars, rsvars, setvars>>

(***************************************************************************)
(*                              ChainIndex                                 *)
(***************************************************************************)

\* Highest epoch a tipset of the modelled chain can have.
MaxEpoch == 45

\* const SKIP_LENGTH: ChainEpoch = 20
SKIP_LENGTH == 20

\* DEFAULT_CHAIN_INDEX_CACHE_SIZE = 32 << 10
DEFAULT_CHAIN_INDEX_CACHE_SIZE == 32768

\* TipsetKeys::default(): the empty key set. It is also what the parents() of
\* the genesis tipset are; no tipset can be loaded from it.
EmptyKeys == 0

\* Key of the genesis tipset (the first tipset of the chain).
GenesisKey == 1

Keys == 1..Len(epochs)

\* Tipset::epoch()
epoch(k) == epochs[k]

\* Tipset::parents(): the chain is linear, the parent of key k is key k - 1.
parents(k) == IF k = GenesisKey THEN EmptyKeys ELSE k - 1

\* The null rounds of a chain: runs of epochs without a tipset.
NullStarts == {11, 20, 40}
NullLengths == {0, 1, 29}

\* Epochs below which a pruned store holds no tipset (0: nothing is pruned).
PrunedBelow == {0, 15}

\* The epochs of the tipsets a checkpoint registry may know.
CheckpointEpochs == {20, 40}

RECURSIVE SetToSeq(_)
SetToSeq(S) ==
    IF S = {} THEN <<>>
    ELSE LET m == CHOOSE x \in S : \A y \in S : x <= y
         IN <<m>> \o SetToSeq(S \ {m})

\* The chain with the null rounds s .. s + l - 1 (genesis and the head always exist).
ChainWith(s, l) ==
    SetToSeq({e \in 0..MaxEpoch : ~(e >= s /\ e < s + l /\ e # 0 /\ e # MaxEpoch)})

Ok(ts, loads) == [ok |-> TRUE, ts |-> ts, loads |-> loads]
Err(loads) == [ok |-> FALSE, ts |-> EmptyKeys, loads |-> loads]

\* ChainIndex::load_tipset -> tipset_from_keys: fails for the empty key set and
\* for a tipset the store does not hold.
load_tipset(tsk) ==
    IF tsk \in Keys /\ tsk \notin missing THEN Ok(tsk, 1) ELSE Err(1)

\* The loop of walk_back: `loads` counts the load_tipset calls made so far.
RECURSIVE walk_back_loop(_, _, _)
walk_back_loop(ts, to, loads) ==
    LET pts == load_tipset(parents(ts)) IN
    IF ~pts.ok THEN Err(loads + 1)
    ELSE IF to > epoch(pts.ts) THEN Ok(ts, loads + 1)
    ELSE IF to = epoch(pts.ts) THEN Ok(pts.ts, loads + 1)
    ELSE walk_back_loop(pts.ts, to, loads + 1)

\* walk_back without the check for a height above the start point.
walk_back_unchecked(from, to) ==
    IF to = epoch(from) THEN Ok(from, 0)
    ELSE walk_back_loop(from, to, 0)

\* walk_back returning the parent that lies below the height asked for.
RECURSIVE walk_back_loop_below(_, _, _)
walk_back_loop_below(ts, to, loads) ==
    LET pts == load_tipset(parents(ts)) IN
    IF ~pts.ok THEN Err(loads + 1)
    ELSE IF to >= epoch(pts.ts) THEN Ok(pts.ts, loads + 1)
    ELSE walk_back_loop_below(pts.ts, to, loads + 1)

walk_back_below(from, to) ==
    IF to > epoch(from) THEN Err(0)
    ELSE IF to = epoch(from) THEN Ok(from, 0)
    ELSE walk_back_loop_below(from, to, 0)

\* ChainIndex::walk_back
walk_back(from, to) ==
    IF to > epoch(from) THEN Err(0)
    ELSE IF to = epoch(from) THEN Ok(from, 0)
    ELSE walk_back_loop(from, to, 0)

\* ChainIndex::round_height (heights are never negative here, so the
\* truncating division of Rust and \div agree).
round_height(height) == (height \div SKIP_LENGTH) * SKIP_LENGTH

\* ChainIndex::round_down
round_down(ts) == walk_back(ts, round_height(epoch(ts)))

\* LruCache::get: position of the entry of key k, 0 when absent.
LruFind(cache, k) ==
    IF \E i \in 1..Len(cache) : cache[i].key = k
    THEN CHOOSE i \in 1..Len(cache) : cache[i].key = k
    ELSE 0

\* LruCache::get promotes the entry it finds to most recently used.
LruPromote(cache, i) ==
    <<cache[i]>> \o SubSeq(cache, 1, i - 1) \o SubSeq(cache, i + 1, Len(cache))

\* LruCache::put writing the value into the slot of the most recently used
\* entry, whatever its key.
LruPut_most_recent_slot(cache, k, lbe) ==
    IF cache = <<>> THEN <<[key |-> k, lbe |-> lbe]>>
    ELSE <<[key |-> cache[1].key, lbe |-> lbe]>> \o Tail(cache)

\* LruCache::put: replace or insert as most recently used; at capacity the
\* least recently used entry is dropped.
LruPut(cache, k, lbe) ==
    LET i == LruFind(cache, k)
        rest == IF i # 0
                THEN SubSeq(cache, 1, i - 1) \o SubSeq(cache, i + 1, Len(cache))
                ELSE IF Len(cache) >= DEFAULT_CHAIN_INDEX_CACHE_SIZE
                     THEN SubSeq(cache, 1, Len(cache) - 1)
                     ELSE cache
    IN <<[key |-> k, lbe |-> lbe]>> \o rest

LookbackEntry(tipset, parent_height, target_height, target) ==
    [tipset |-> tipset, parent_height |-> parent_height,
     target_height |-> target_height, target |-> target]

NoEntry == LookbackEntry(EmptyKeys, 0, 0, EmptyKeys)

\* fill_cache recording the height it aimed at as the height of its target.
fill_cache_aimed_height(tsk, cache) ==
    LET t == load_tipset(tsk) IN
    IF ~t.ok THEN [ok |-> FALSE, lbe |-> NoEntry, cache |-> cache, loads |-> 1, puts |-> 0]
    ELSE IF epoch(t.ts) = 0
    THEN [ok |-> TRUE, lbe |-> LookbackEntry(t.ts, 0, 0, EmptyKeys),
          cache |-> cache, loads |-> 1, puts |-> 0]
    ELSE
    LET p == load_tipset(parents(t.ts)) IN
    IF ~p.ok THEN [ok |-> FALSE, lbe |-> NoEntry, cache |-> cache, loads |-> 2, puts |-> 0]
    ELSE
    LET r_height == round_height(epoch(t.ts)) - SKIP_LENGTH
        parent_epoch == epoch(p.ts)
        skip_target == IF parent_epoch < r_height THEN Ok(p.ts, 0)
                       ELSE walk_back(p.ts, r_height)
    IN
    IF ~skip_target.ok
    THEN [ok |-> FALSE, lbe |-> NoEntry, cache |-> cache,
          loads |-> 2 + skip_target.loads, puts |-> 0]
    ELSE
    LET lbe == LookbackEntry(t.ts, parent_epoch, r_height, skip_target.ts)
    IN [ok |-> TRUE, lbe |-> lbe, cache |-> LruPut(cache, tsk, lbe),
        loads |-> 2 + skip_target.loads, puts |-> 1]

\* fill_cache substituting the parent for a skip target it could not walk to.
fill_cache_parent_on_failure(tsk, cache) ==
    LET t == load_tipset(tsk) IN
    IF ~t.ok THEN [ok |-> FALSE, lbe |-> NoEntry, cache |-> cache, loads |-> 1, puts |-> 0]
    ELSE IF epoch(t.ts) = 0
    THEN [ok |-> TRUE, lbe |-> LookbackEntry(t.ts, 0, 0, EmptyKeys),
          cache |-> cache, loads |-> 1, puts |-> 0]
    ELSE
    LET p == load_tipset(parents(t.ts)) IN
    IF ~p.ok THEN [ok |-> FALSE, lbe |-> NoEntry, cache |-> cache, loads |-> 2, puts |-> 0]
    ELSE
    LET r_height == round_height(epoch(t.ts)) - SKIP_LENGTH
        parent_epoch == epoch(p.ts)
        walked == IF parent_epoch < r_height THEN Ok(p.ts, 0)
                  ELSE walk_back(p.ts, r_height)
        skip_target == IF walked.ok THEN walked ELSE Ok(p.ts, walked.loads)
        lbe == LookbackEntry(t.ts, parent_epoch, epoch(skip_target.ts), skip_target.ts)
    IN [ok |-> TRUE, lbe |-> lbe, cache |-> LruPut(cache, tsk, lbe),
        loads |-> 2 + skip_target.loads, puts |-> 1]

\* ChainIndex::fill_cache: the entry, the cache after it and the loads made.
fill_cache(tsk, cache) ==
    LET t == load_tipset(tsk) IN
    IF ~t.ok THEN [ok |-> FALSE, lbe |-> NoEntry, cache |-> cache, loads |-> 1, puts |-> 0]
    ELSE IF epoch(t.ts) = 0
    THEN [ok |-> TRUE, lbe |-> LookbackEntry(t.ts, 0, 0, EmptyKeys),
          cache |-> cache, loads |-> 1, puts |-> 0]
    ELSE
    LET p == load_tipset(parents(t.ts)) IN
    IF ~p.ok THEN [ok |-> FALSE, lbe |-> NoEntry, cache |-> cache, loads |-> 2, puts |-> 0]
    ELSE
    LET r_height == round_height(epoch(t.ts)) - SKIP_LENGTH
        parent_epoch == epoch(p.ts)
        skip_target == IF parent_epoch < r_height THEN Ok(p.ts, 0)
                       ELSE walk_back(p.ts, r_height)
    IN
    IF ~skip_target.ok
    THEN [ok |-> FALSE, lbe |-> NoEntry, cache |-> cache,
          loads |-> 2 + skip_target.loads, puts |-> 0]
    ELSE
    LET lbe == LookbackEntry(t.ts, parent_epoch, epoch(skip_target.ts), skip_target.ts)
    IN [ok |-> TRUE, lbe |-> lbe, cache |-> LruPut(cache, tsk, lbe),
        loads |-> 2 + skip_target.loads, puts |-> 1]

\* checkpoint_tipsets::genesis_from_checkpoint_tipset: the registry maps the
\* hash of a checkpointed tipset's key to the genesis key of its network.
genesis_from_checkpoint_tipset(tsk) ==
    IF tsk \in checkpoints THEN GenesisKey ELSE EmptyKeys

\* What a lookup hands back to the action that made it: the Result, the skip
\* cache after it, the tipset loads and cache accesses it made, the
\* LookbackEntry values fill_cache constructed on its way, and the entries
\* the lookback loop examined, one per iteration.
Res(r, cache, loads, touched, made, seen) ==
    [ok |-> r.ok, ts |-> r.ts, loads |-> loads, cache |-> cache, touched |-> touched,
     made |-> made, seen |-> seen]

\* The lookback loop testing the stop conditions on `to` before the
\* checkpoint registry.
RECURSIVE lookback_loop_stops_first(_, _, _, _, _, _, _)
lookback_loop_stops_first(cur, to, cache, loads, touched, made, seen) ==
    LET hit == LruFind(cache, cur)
        f == IF hit # 0
             THEN [ok |-> TRUE, lbe |-> cache[hit].lbe, cache |-> LruPromote(cache, hit),
                   loads |-> 0, puts |-> 0]
             ELSE fill_cache(cur, cache)
        lbe == f.lbe
        l2 == loads + f.loads
        t2 == touched + 1 + f.puts
        m2 == IF hit = 0 /\ f.ok THEN made \cup {lbe} ELSE made
        s2 == IF f.ok THEN Append(seen, lbe) ELSE seen
        genesis_tipset_keys == genesis_from_checkpoint_tipset(lbe.tipset)
    IN
    IF ~f.ok THEN Res(Err(0), f.cache, l2, t2, m2, s2)
    ELSE IF epoch(lbe.tipset) = to \/ lbe.parent_height < to
    THEN Res(Ok(lbe.tipset, 0), f.cache, l2, t2, m2, s2)
    ELSE IF genesis_tipset_keys # EmptyKeys
    THEN Res(load_tipset(genesis_tipset_keys), f.cache, l2 + 1, t2, m2, s2)
    ELSE IF to > lbe.target_height
    THEN LET w == walk_back(lbe.tipset, to) IN Res(w, f.cache, l2 + w.loads, t2, m2, s2)
    ELSE lookback_loop_stops_first(lbe.target, to, f.cache, l2, t2, m2, s2)

\* The lookback loop of get_tipset_by_height (index.rs:139-174). `touched`
\* counts the accesses to skip_cache.
RECURSIVE lookback_loop(_, _, _, _, _, _, _)
lookback_loop(cur, to, cache, loads, touched, made, seen) ==
    LET hit == LruFind(cache, cur)
        f == IF hit # 0
             THEN [ok |-> TRUE, lbe |-> cache[hit].lbe, cache |-> LruPromote(cache, hit),
                   loads |-> 0, puts |-> 0]
             ELSE fill_cache(cur, cache)
        lbe == f.lbe
        l2 == loads + f.loads
        t2 == touched + 1 + f.puts
        m2 == IF hit = 0 /\ f.ok THEN made \cup {lbe} ELSE made
        s2 == IF f.ok THEN Append(seen, lbe) ELSE seen
        genesis_tipset_keys == genesis_from_checkpoint_tipset(lbe.tipset)
    IN
    IF ~f.ok THEN Res(Err(0), f.cache, l2, t2, m2, s2)
    ELSE IF genesis_tipset_keys # EmptyKeys
    THEN Res(load_tipset(genesis_tipset_keys), f.cache, l2 + 1, t2, m2, s2)
    ELSE IF epoch(lbe.tipset) = to \/ lbe.parent_height < to
    THEN Res(Ok(lbe.tipset, 0), f.cache, l2, t2, m2, s2)
    ELSE IF to > lbe.target_height
    THEN LET w == walk_back(lbe.tipset, to) IN Res(w, f.cache, l2 + w.loads, t2, m2, s2)
    ELSE lookback_loop(lbe.target, to, f.cache, l2, t2, m2, s2)

\* ChainIndex::get_tipset_by_height
get_tipset_by_height(from, to, cache) ==
    IF epoch(from) - to <= SKIP_LENGTH
    THEN LET w == walk_back(from, to) IN Res(w, cache, w.loads, 0, {}, <<>>)
    ELSE LET rounded == round_down(from) IN
         IF ~rounded.ok THEN Res(rounded, cache, rounded.loads, 0, {}, <<>>)
         ELSE lookback_loop(rounded.ts, to, cache, rounded.loads, 0, {}, <<>>)

\* ChainIndex::get_tipset_by_height_without_cache
get_tipset_by_height_without_cache(from, to, cache) ==
    LET w == walk_back(from, to) IN Res(w, cache, w.loads, 0, {}, <<>>)

\* const MAX_COUNT: usize = 100
MAX_COUNT == 100

\* Most iterations a lookback loop of the model makes.
MaxIterations == 203

\* No lookback loop is running.
NoScan == [pc |-> "idle", counter |-> 0, since |-> 0, iterations |-> 0, yields |-> 0]

\* Number of concurrent callers of get_tipset_by_height.
MaxLookups == 2
Lookups == 1..MaxLookups

\* The frame of a caller that has no call in flight.
NoLookup == [pc |-> "idle", from |-> EmptyKeys, to |-> 0, cur |-> EmptyKeys,
             ok |-> FALSE, ts |-> EmptyKeys, filled |-> {}]

Idle == [op |-> "idle", from |-> EmptyKeys, to |-> 0, ok |-> FALSE, ts |-> EmptyKeys,
         loads |-> 0, touched |-> 0, before |-> <<>>, made |-> {}, seen |-> <<>>]

Called(op, from, to, r, before) ==
    [op |-> op, from |-> from, to |-> to, ok |-> r.ok, ts |-> r.ts,
     loads |-> r.loads, touched |-> r.touched, before |-> before, made |-> r.made,
     seen |-> r.seen]

\* The heights a caller asks for: any epoch of the chain, one below genesis
\* and one above the head.
Heights == -1..(MaxEpoch + 1)

\* The tipsets a caller starts from: the tipsets of the last epochs of the
\* chain and the tipsets at a few older epochs.
FromEpochs == {0, 10, 21, 25}
RecentSpan == 5
Froms == {k \in Keys : epoch(k) \in FromEpochs \/ epoch(k) >= MaxEpoch - RecentSpan}

(***************************************************************************)
(*                   RollingDB and DbGarbageCollector                      *)
(***************************************************************************)

\* Highest epoch the head tipset reaches.
MaxHead == 1

\* collect_once invocations in one behaviour.
MaxInvocations == 2

\* DEFAULT_RECENT_ROOTS, the recent-roots depth of the walk, scaled to the
\* modelled chain.
RecentRoots == 1

\* flume::bounded(100), the capacity of the block channel, scaled to the
\* modelled chain.
ChannelCapacity == 2

\* BUFFER_CAPCITY_BYTES, the byte budget of the writer, counted in blocks.
BufferBudget == 2

\* The blocks of the chain: one header, one message root and one state root
\* per epoch, and the block the parents() of the genesis header name.
Header(e) == [kind |-> "header", e |-> e]
Messages(e) == [kind |-> "messages", e |-> e]
StateRoot(e) == [kind |-> "state", e |-> e]
GenesisParent == [kind |-> "parent", e |-> 0]

BlocksOf(e) ==
    {Header(e), Messages(e), StateRoot(e)} \cup (IF e = 0 THEN {GenesisParent} ELSE {})

Invs == 1..MaxInvocations
Responders == 1..MaxInvocations

Holder(i) == [kind |-> "collect_once", id |-> i]
Probe == [kind |-> "probe", id |-> 0]

\* The load_block calls walk_snapshot makes for the header of epoch e, in
\* order: the header, its messages within the recent-roots depth, the
\* parents of the genesis header, the state root of genesis and of the
\* headers within the depth.
visit(e, incl_roots_epoch) ==
    <<Header(e)>>
    \o (IF e > incl_roots_epoch THEN <<Messages(e)>> ELSE <<>>)
    \o (IF e > 0 THEN <<>> ELSE <<GenesisParent>>)
    \o (IF e = 0 \/ e > incl_roots_epoch THEN <<StateRoot(e)>> ELSE <<>>)

RECURSIVE walk_queue(_, _)
walk_queue(e, incl_roots_epoch) ==
    visit(e, incl_roots_epoch)
    \o (IF e > 0 THEN walk_queue(e - 1, incl_roots_epoch) ELSE <<>>)

\* walk_snapshot(tipset, recent_roots, load_block): the blocks it loads, in order.
walk_snapshot(tipset, recent_roots) == walk_queue(tipset, tipset - recent_roots)

Range(q) == {q[j] : j \in 1..Len(q)}

\* RollingDB: the old partition is the one before the current one.
old == current - 1

\* RollingDB::get / has: the current partition, then the old one.
db_has(c) == c \in parts[current] \cup parts[old]

\* db.current().has(cid) (gc.rs:118)
current_has(c) == c \in parts[current]

\* The walk sends a block only when no partition has it (never true of a
\* block db.get has just returned).
needs_copy_absent(c) == ~db_has(c)

\* gc.rs:118: the walk sends a block to the writer unless the current
\* partition has it.
needs_copy(c) == ~current_has(c)

\* RollingDB::next_partition: a fresh partition becomes current, the current
\* one becomes old and the old one is deleted.
next_partition_parts ==
    [id \in {current, current + 1} |-> IF id = current THEN parts[current] ELSE {}]

\* RollingDB::total_size_in_bytes / current_size_in_bytes: every block
\* counts one unit.
total_size_in_bytes == Cardinality(parts[current]) + Cardinality(parts[old])
current_size_in_bytes == Cardinality(parts[current])

\* Store::bulk_write into a partition; a partition deleted meanwhile takes nothing.
bulk_write(ps, part, buffer) ==
    IF part \in DOMAIN ps THEN [ps EXCEPT ![part] = @ \cup Range(buffer)] ELSE ps

NoFrame == [pc |-> "unused", origin |-> "none", responder |-> 0, tipset |-> 0,
            pos |-> 0, result |-> "none"]
NoWriter == [state |-> "none", part |-> 0, buf |-> <<>>, est |-> 0, written |-> 0]

\* The tx side kept until collect_once returns (no drop(tx) before the await
\* of the write task).
SenderOpen_until_return(i) == inv[i].pc \in {"walk", "join"}

\* The tx side of the channel of invocation i is alive while its walk runs.
SenderOpen(i) == inv[i].pc = "walk"

\* The blocks the walk of invocation i has loaded so far.
Visited(i) == Range(SubSeq(walk_snapshot(inv[i].tipset, RecentRoots), 1, inv[i].pos - 1))

\* What can go wrong in one behaviour: a block of the chain that is not
\* stored or is stored undecodable, or one I/O failure of a read, a write,
\* a size query or the partition swap.
FaultKinds == {"none", "missing", "corrupt", "io"}
FaultBlock == Header(0)

GcIdle ==
    /\ head = 0
    /\ fault = "none"
    /\ io_faults = FALSE
    /\ parts = [id \in {0, 1} |-> {}]
    /\ current = 1
    /\ lock = {}
    /\ passive = [pc |-> "sleep", inv |-> 0, tipset |-> 0]
    /\ gc_rx = <<>>
    /\ responses = [r \in Responders |-> "unsent"]
    /\ ninv = 0
    /\ inv = [i \in Invs |-> NoFrame]
    /\ chan = [i \in Invs |-> <<>>]
    /\ writer = [i \in Invs |-> NoWriter]

\* The node syncs one more tipset: its blocks go to the current partition,
\* and the head advances.
AdvanceHead ==
    /\ head < MaxHead
    /\ head' = head + 1
    /\ parts' = [parts EXCEPT ![current] = @ \cup BlocksOf(head + 1)]
    /\ UNCHANGED <<fault, io_faults, current, lock, passive, gc_rx, responses,
                   ninv, inv, chan, writer>>
    /\ UNCHANGED offgc

\* A caller sends a responder on the GC trigger channel (get_tx().send).
Request(r) ==
    /\ responses[r] = "unsent"
    /\ \A q \in Responders : q < r => responses[q] # "unsent"
    /\ ninv + Len(gc_rx) < MaxInvocations
    /\ responses' = [responses EXCEPT ![r] = "waiting"]
    /\ gc_rx' = Append(gc_rx, r)
    /\ UNCHANGED <<head, fault, io_faults, parts, current, lock, passive,
                   ninv, inv, chan, writer>>
    /\ UNCHANGED offgc

\* collect_loop_event (gc.rs:80-88): receive a responder, read the head and
\* spawn the task that runs collect_once.
EventRecv ==
    /\ gc_rx # <<>>
    /\ ninv' = ninv + 1
    /\ inv' = [inv EXCEPT ![ninv + 1] =
                  [pc |-> "start", origin |-> "event", responder |-> Head(gc_rx),
                   tipset |-> head, pos |-> 0, result |-> "none"]]
    /\ gc_rx' = Tail(gc_rx)
    /\ UNCHANGED <<head, fault, io_faults, parts, current, lock, passive, responses,
                   chan, writer>>
    /\ UNCHANGED offgc

\* collect_once returns `result` and the spawned task drops it.
Returns_dropped(i, result) ==
    /\ inv' = [inv EXCEPT ![i] = [pc |-> "done", origin |-> inv[i].origin,
                                  responder |-> inv[i].responder,
                                  tipset |-> inv[i].tipset,
                                  pos |-> 0, result |-> result]]
    /\ UNCHANGED responses

\* collect_once returns `result`; the spawned task of an event request sends
\* it to its responder (gc.rs:84-85).
Returns(i, result) ==
    /\ inv' = [inv EXCEPT ![i] = [pc |-> "done", origin |-> inv[i].origin,
                                  responder |-> inv[i].responder,
                                  tipset |-> inv[i].tipset,
                                  pos |-> 0, result |-> result]]
    /\ responses' = IF inv[i].origin = "event"
                    THEN [responses EXCEPT ![inv[i].responder] = result]
                    ELSE responses

\* Mutex::try_lock that never finds the lock held.
try_lock_always == TRUE

\* Mutex::try_lock (gc.rs:95, gc.rs:59): succeeds iff nobody holds the lock.
try_lock == lock = {}

\* collect_once up to its first await (gc.rs:95-111): try the lock; on
\* success open the channel and spawn the write task on the current partition.
TryLock(i) ==
    /\ inv[i].pc = "start"
    /\ IF ~try_lock
       THEN /\ Returns(i, "in_progress")
            /\ UNCHANGED <<lock, chan, writer>>
       ELSE /\ lock' = lock \cup {Holder(i)}
            /\ inv' = [inv EXCEPT ![i].pc = "walk", ![i].pos = 1]
            /\ chan' = [chan EXCEPT ![i] = <<>>]
            /\ writer' = [writer EXCEPT ![i] =
                             [state |-> "running", part |-> current, buf |-> <<>>,
                              est |-> 0, written |-> 0]]
            /\ UNCHANGED responses
    /\ UNCHANGED <<head, fault, io_faults, parts, current, passive, gc_rx, ninv>>
    /\ UNCHANGED offgc

\* The walk fails: collect_once returns the error, which drops tx and the guard.
WalkFails(i) ==
    /\ Returns(i, "failed")
    /\ lock' = lock \ {Holder(i)}

\* The walk goes on after a load; after the last one, tx is dropped and
\* collect_once awaits the write task (gc.rs:125-127).
WalkOn(i) ==
    /\ inv' = [inv EXCEPT ![i].pos = @ + 1,
                          ![i].pc = IF inv[i].pos = Len(walk_snapshot(inv[i].tipset, RecentRoots))
                                    THEN "join" ELSE "walk"]
    /\ UNCHANGED <<lock, responses>>

\* The write task of a frame that has returned ends: nothing of it is left.
Ended(how) == [state |-> how, part |-> 0, buf |-> <<>>, est |-> 0, written |-> 0]

\* One load_block call of the walk (gc.rs:114-123) and what walk_snapshot
\* does with the block.
Walk(i) ==
    /\ inv[i].pc = "walk"
    /\ LET c == walk_snapshot(inv[i].tipset, RecentRoots)[inv[i].pos]
           orphan == IF writer[i].state = "running" THEN writer
                     ELSE [writer EXCEPT ![i] = Ended(writer[i].state)]
       IN
       \/ \* db.get fails
          /\ io_faults
          /\ io_faults' = FALSE
          /\ WalkFails(i)
          /\ writer' = orphan
          /\ UNCHANGED chan
       \/ \* Cid not found in blockstore
          /\ ~db_has(c)
          /\ WalkFails(i)
          /\ writer' = orphan
          /\ UNCHANGED <<chan, io_faults>>
       \/ \* the send fails: the write task has ended and dropped rx
          /\ db_has(c)
          /\ needs_copy(c)
          /\ writer[i].state # "running"
          /\ WalkFails(i)
          /\ writer' = orphan
          /\ UNCHANGED <<chan, io_faults>>
       \/ \* the block is loaded, and sent when the current partition lacks it
          /\ db_has(c)
          /\ needs_copy(c) => (writer[i].state = "running" /\ Len(chan[i]) < ChannelCapacity)
          /\ chan' = IF needs_copy(c) THEN [chan EXCEPT ![i] = Append(@, c)] ELSE chan
          /\ IF c = FaultBlock /\ fault = "corrupt"
             THEN WalkFails(i) /\ writer' = orphan   \* BlockHeader::unmarshal_cbor fails
             ELSE WalkOn(i) /\ UNCHANGED writer
          /\ UNCHANGED io_faults
    /\ UNCHANGED <<head, fault, parts, current, passive, gc_rx, ninv>>
    /\ UNCHANGED offgc

\* The write task ends with `how`; rx is dropped, and with it what the
\* channel still holds.
WriterEnds(i, how) ==
    /\ writer' = [writer EXCEPT ![i] =
                     IF inv[i].pc = "done" THEN Ended(how)
                     ELSE [@ EXCEPT !.state = how, !.buf = <<>>, !.est = 0]]
    /\ chan' = [chan EXCEPT ![i] = <<>>]

\* The write task receives a block and flushes its buffer once the budget
\* is reached; a failing flush ends the task.
WriterRecv(i) ==
    /\ writer[i].state = "running"
    /\ chan[i] # <<>>
    /\ LET buf == Append(writer[i].buf, Head(chan[i]))
           est == writer[i].est + 1
       IN IF est < BufferBudget
          THEN /\ writer' = [writer EXCEPT ![i].buf = buf, ![i].est = est]
               /\ chan' = [chan EXCEPT ![i] = Tail(@)]
               /\ UNCHANGED <<parts, io_faults>>
          ELSE \/ /\ parts' = bulk_write(parts, writer[i].part, buf)
                  /\ writer' = [writer EXCEPT ![i].buf = <<>>, ![i].est = 0,
                                              ![i].written = @ + Len(buf)]
                  /\ chan' = [chan EXCEPT ![i] = Tail(@)]
                  /\ UNCHANGED io_faults
               \/ /\ io_faults
                  /\ io_faults' = FALSE
                  /\ \E how \in {"err", "panicked"} : WriterEnds(i, how)
                  /\ UNCHANGED parts
    /\ UNCHANGED <<head, fault, current, lock, passive, gc_rx, responses, ninv, inv>>
    /\ UNCHANGED offgc

\* The channel is closed and drained: the write task flushes what is left
\* and ends.
WriterFinish(i) ==
    /\ writer[i].state = "running"
    /\ chan[i] = <<>>
    /\ ~SenderOpen(i)
    /\ \/ /\ parts' = bulk_write(parts, writer[i].part, writer[i].buf)
          /\ writer' = [writer EXCEPT ![i] =
                           IF inv[i].pc = "done" THEN Ended("ok")
                           ELSE [@ EXCEPT !.state = "ok", !.buf = <<>>, !.est = 0,
                                          !.written = @ + Len(writer[i].buf)]]
          /\ UNCHANGED <<io_faults, chan>>
       \/ /\ io_faults
          /\ io_faults' = FALSE
          /\ \E how \in {"err", "panicked"} : WriterEnds(i, how)
          /\ UNCHANGED parts
    /\ UNCHANGED <<head, fault, current, lock, passive, gc_rx, responses, ninv, inv>>
    /\ UNCHANGED offgc

\* The write task taken to have succeeded without being awaited.
write_task_unawaited(i) == "ok"

\* write_task.await?? with the errors and the panic of the task dropped.
write_task_errors_dropped(i) ==
    IF writer[i].state = "running" THEN "pending" ELSE "ok"

\* write_task.await?? (gc.rs:127): pending until the write task has ended,
\* then Ok iff the task neither panicked nor returned an error.
write_task(i) ==
    IF writer[i].state = "running" THEN "pending" ELSE writer[i].state

\* collect_once from the end of write_task.await to its return (gc.rs:127-135).
Join(i) ==
    /\ inv[i].pc = "join"
    /\ write_task(i) # "pending"
    /\ lock' = lock \ {Holder(i)}
    /\ writer' = [writer EXCEPT ![i] =
                     IF writer[i].state = "running" THEN @ ELSE Ended(writer[i].state)]
    /\ IF write_task(i) # "ok"
       THEN /\ Returns(i, "failed")
            /\ UNCHANGED <<parts, current, io_faults>>
       ELSE \/ /\ parts' = next_partition_parts
               /\ current' = current + 1
               /\ Returns(i, "ok")
               /\ UNCHANGED io_faults
            \/ \* next_partition fails: nothing is swapped
               /\ io_faults
               /\ io_faults' = FALSE
               /\ Returns(i, "failed")
               /\ UNCHANGED <<parts, current>>
    /\ UNCHANGED <<head, fault, passive, gc_rx, ninv, chan>>
    /\ UNCHANGED offgc

\* collect_loop_passive after its sleep (gc.rs:49-63): skip the cycle at
\* epoch 0 or when the lock is held, else hold the lock for the probe.
PassiveWake ==
    /\ passive.pc = "sleep"
    /\ IF head = 0 \/ ~try_lock
       THEN UNCHANGED <<lock, passive>>
       ELSE /\ lock' = lock \cup {Probe}
            /\ passive' = [pc |-> "probe", inv |-> 0, tipset |-> head]
    /\ UNCHANGED <<head, fault, io_faults, parts, current, gc_rx, responses, ninv,
                   inv, chan, writer>>
    /\ UNCHANGED offgc

\* The size test with the current partition at more than half of the total.
should_collect_at_half ==
    total_size_in_bytes > 0 /\ current_size_in_bytes * 2 > total_size_in_bytes

\* gc.rs:70
should_collect == total_size_in_bytes > 0 /\ current_size_in_bytes * 3 > total_size_in_bytes

PassiveSleeps == [pc |-> "sleep", inv |-> 0, tipset |-> 0]

\* collect_loop_passive from the end of the probe to the call of
\* collect_once (gc.rs:63-71): the probe guard is dropped, the sizes are
\* read, and collect_once is called when the current partition is big enough.
PassiveCheckSize ==
    /\ passive.pc = "probe"
    /\ lock' = lock \ {Probe}
    /\ \/ \* a size query fails: the cycle is skipped
          /\ io_faults
          /\ io_faults' = FALSE
          /\ passive' = PassiveSleeps
          /\ UNCHANGED <<ninv, inv>>
       \/ /\ ~should_collect
          /\ passive' = PassiveSleeps
          /\ UNCHANGED <<ninv, inv, io_faults>>
       \/ /\ should_collect
          /\ ninv + Len(gc_rx) < MaxInvocations
          /\ ninv' = ninv + 1
          /\ inv' = [inv EXCEPT ![ninv + 1] =
                        [pc |-> "start", origin |-> "passive", responder |-> 0,
                         tipset |-> passive.tipset, pos |-> 0, result |-> "none"]]
          /\ passive' = [pc |-> "collect", inv |-> ninv + 1, tipset |-> 0]
          /\ UNCHANGED io_faults
    /\ UNCHANGED <<head, fault, parts, current, gc_rx, responses, chan, writer>>
    /\ UNCHANGED offgc

\* collect_once has returned to collect_loop_passive, which sleeps again.
PassiveResume ==
    /\ passive.pc = "collect"
    /\ inv[passive.inv].pc = "done"
    /\ passive' = PassiveSleeps
    /\ UNCHANGED <<head, fault, io_faults, parts, current, lock, gc_rx, responses,
                   ninv, inv, chan, writer>>
    /\ UNCHANGED offgc

GcNext ==
    \/ AdvanceHead
    \/ \E r \in Responders : Request(r)
    \/ EventRecv
    \/ \E i \in Invs : TryLock(i)
    \/ \E i \in Invs : Walk(i)
    \/ \E i \in Invs : WriterRecv(i)
    \/ \E i \in Invs : WriterFinish(i)
    \/ \E i \in Invs : Join(i)
    \/ PassiveWake
    \/ PassiveCheckSize
    \/ PassiveResume

(***************************************************************************)
(*                     PlainCar (src/db/car/plain.rs)                      *)
(***************************************************************************)

MaxThreads == 2
MaxCid == 2
MaxBlock == 2

Threads == 1..MaxThreads
Cids == 1..MaxCid
Blocks == 1..MaxBlock

\* A vacant entry of the write cache; Option::None as the bytes of a result.
NoBytes == 0

\* The bytes the reader yields at the indexed location of k. The file is
\* immutable, so they are a function of the CID.
read_exact_at(k) == ((k - 1) % MaxBlock) + 1

\* RwLock::read and RwLock::write: whether thread t can be granted the guard.
can_read(guards) == \A g \in guards : g[2] = "read"
can_write(guards) == guards = {}

release(guards, t) == {g \in guards : g[1] # t}

NotCalling == [pc |-> "idle", op |-> "none", k |-> 0, block |-> NoBytes,
               on_disk |-> FALSE, cached |-> NoBytes, expect |-> {},
               tag |-> "none", ret |-> NoBytes]

\* handle_write_cache with a second write of other bytes replacing the entry.
handle_write_cache_overwriting(cache, idx, k, block) ==
    IF k \in idx
    THEN [tag |-> "Ok", cache |-> cache]
    ELSE [tag |-> "Ok", cache |-> [cache EXCEPT ![k] = block]]

\* handle_write_cache with the (Some, Vacant) arm caching the block as the
\* (None, Vacant) arm does.
handle_write_cache_caching_indexed(cache, idx, k, block) ==
    CASE cache[k] # NoBytes /\ cache[k] = block -> [tag |-> "Ok", cache |-> cache]
      [] cache[k] # NoBytes /\ cache[k] # block -> [tag |-> "panic", cache |-> cache]
      [] OTHER -> [tag |-> "Ok", cache |-> [cache EXCEPT ![k] = block]]

\* handle_write_cache with a second write of other bytes ignored: the first
\* write stays and the call returns Ok.
handle_write_cache_first_wins(cache, idx, k, block) ==
    IF k \in idx \/ cache[k] # NoBytes
    THEN [tag |-> "Ok", cache |-> cache]
    ELSE [tag |-> "Ok", cache |-> [cache EXCEPT ![k] = block]]

\* handle_write_cache (plain.rs:255-282) on (index.get(k), write_cache.entry(k)).
handle_write_cache(cache, idx, k, block) ==
    CASE k \notin idx /\ cache[k] # NoBytes ->
            IF cache[k] = block
            THEN [tag |-> "Ok", cache |-> cache]
            ELSE [tag |-> "panic", cache |-> cache]
      [] k \notin idx /\ cache[k] = NoBytes ->
            [tag |-> "Ok", cache |-> [cache EXCEPT ![k] = block]]
      [] k \in idx /\ cache[k] = NoBytes ->
            [tag |-> "Ok", cache |-> cache]
      [] k \in idx /\ cache[k] # NoBytes ->
            [tag |-> "panic", cache |-> cache]

CarIdle ==
    /\ index = {1}
    /\ write_cache = [k \in Cids |-> NoBytes]
    /\ index_lock = {}
    /\ cache_lock = {}
    /\ thread = [t \in Threads |-> NotCalling]
    /\ acked = {}

\* get: the call, up to self.index.read().get(k).
GetIndex(t, k) ==
    /\ thread[t].pc = "idle"
    /\ can_read(index_lock)
    /\ index_lock' = index_lock \cup {<<t, "read">>}
    /\ thread' = [thread EXCEPT ![t] =
                    [NotCalling EXCEPT !.pc = "get_cache", !.op = "get", !.k = k,
                                       !.on_disk = k \in index,
                                       !.expect = {b \in Blocks : <<k, b>> \in acked}]]
    /\ UNCHANGED <<index, write_cache, cache_lock, acked>>
    /\ UNCHANGED offcar

\* get: self.write_cache.read().get(k).
GetCache(t) ==
    /\ thread[t].pc = "get_cache"
    /\ can_read(cache_lock)
    /\ cache_lock' = cache_lock \cup {<<t, "read">>}
    /\ thread' = [thread EXCEPT ![t].pc = "get_match",
                                ![t].cached = write_cache[thread[t].k]]
    /\ UNCHANGED <<index, write_cache, index_lock, acked>>
    /\ UNCHANGED offcar

\* get: the arms of the match; the two read guards are dropped at its end.
\* reader.read_exact_at may fail with an I/O error.
GetMatch(t) ==
    LET f == thread[t] IN
    /\ f.pc = "get_match"
    /\ IF f.on_disk /\ f.cached # NoBytes
       THEN \* self.write_cache.write().remove(k), with the read guards held
            /\ can_write(cache_lock)
            /\ write_cache' = [write_cache EXCEPT ![f.k] = NoBytes]
            /\ thread' = [thread EXCEPT ![t].pc = "done", ![t].tag = "Some",
                                        ![t].ret = write_cache[f.k]]
       ELSE /\ \E read \in IF f.on_disk THEN {"Some", "Err"} ELSE {"Some"} :
                 thread' = [thread EXCEPT
                    ![t].pc = "done",
                    ![t].tag = CASE f.on_disk -> read
                                 [] f.cached # NoBytes -> "Some"
                                 [] OTHER -> "None",
                    ![t].ret = CASE f.on_disk /\ read = "Some" -> read_exact_at(f.k)
                                 [] f.on_disk -> NoBytes
                                 [] OTHER -> f.cached]
            /\ UNCHANGED write_cache
    /\ index_lock' = release(index_lock, t)
    /\ cache_lock' = release(cache_lock, t)
    /\ UNCHANGED <<index, acked>>
    /\ UNCHANGED offcar

\* put_keyed: the call, up to self.index.write().
PutIndex(t, k, block) ==
    /\ thread[t].pc = "idle"
    /\ can_write(index_lock)
    /\ index_lock' = {<<t, "write">>}
    /\ thread' = [thread EXCEPT ![t] =
                    [NotCalling EXCEPT !.pc = "put_cache", !.op = "put_keyed",
                                       !.k = k, !.block = block]]
    /\ UNCHANGED <<index, write_cache, cache_lock, acked>>
    /\ UNCHANGED offcar

\* put_keyed: self.write_cache.write().
PutCache(t) ==
    /\ thread[t].pc = "put_cache"
    /\ can_write(cache_lock)
    /\ cache_lock' = {<<t, "write">>}
    /\ thread' = [thread EXCEPT ![t].pc = "put_handle"]
    /\ UNCHANGED <<index, write_cache, index_lock, acked>>
    /\ UNCHANGED offcar

\* put_keyed: handle_write_cache and the return (or the unwinding), which
\* drops the two write guards.
PutHandle(t) ==
    LET f == thread[t]
        r == handle_write_cache(write_cache, index, f.k, f.block)
    IN  /\ f.pc = "put_handle"
        /\ write_cache' = r.cache
        /\ thread' = [thread EXCEPT ![t].pc = "done", ![t].tag = r.tag]
        /\ acked' = IF r.tag = "Ok" /\ f.k \notin index
                    THEN acked \cup {<<f.k, f.block>>}
                    ELSE acked
        /\ index_lock' = release(index_lock, t)
        /\ cache_lock' = release(cache_lock, t)
        /\ UNCHANGED index
        /\ UNCHANGED offcar

\* The caller takes the result; the thread is free for its next call.
CallEnds(t) ==
    /\ thread[t].pc = "done"
    /\ thread' = [thread EXCEPT ![t] = NotCalling]
    /\ UNCHANGED <<index, write_cache, index_lock, cache_lock, acked>>
    /\ UNCHANGED offcar

CarNext ==
    \E t \in Threads :
        \/ \E k \in Cids : GetIndex(t, k)
        \/ GetCache(t)
        \/ GetMatch(t)
        \/ \E k \in Cids, block \in Blocks : PutIndex(t, k, block)
        \/ PutCache(t)
        \/ PutHandle(t)
        \/ CallEnds(t)

\* ---- The calls of PlainCar with their waits for the locks ----
\* A call that has been made and waits for its first lock has a position of
\* its own, so that a call that is never granted a lock shows.

\* put_keyed taking the write-cache lock before the index lock.
put_lock_order_reversed == <<"cache", "index">>

\* put_keyed: self.index.write() and then self.write_cache.write()
\* (plain.rs:229-230).
put_lock_order == <<"index", "cache">>

\* RwLock::write on the lock of that name, for thread t.
LockWrite(name, t) ==
    IF name = "index"
    THEN /\ can_write(index_lock)
         /\ index_lock' = {<<t, "write">>}
         /\ UNCHANGED cache_lock
    ELSE /\ can_write(cache_lock)
         /\ cache_lock' = {<<t, "write">>}
         /\ UNCHANGED index_lock

\* get is called (plain.rs:198).
CallGet(t, k) ==
    /\ thread[t].pc = "idle"
    /\ thread' = [thread EXCEPT ![t] =
                    [NotCalling EXCEPT !.pc = "get_index", !.op = "get", !.k = k]]
    /\ UNCHANGED <<index, write_cache, index_lock, cache_lock, acked>>
    /\ UNCHANGED offcar

\* get: self.index.read().get(k) (plain.rs:199).
LockIndexRead(t) ==
    /\ thread[t].pc = "get_index"
    /\ can_read(index_lock)
    /\ index_lock' = index_lock \cup {<<t, "read">>}
    /\ thread' = [thread EXCEPT ![t].pc = "get_cache",
                                ![t].on_disk = thread[t].k \in index,
                                ![t].expect = {b \in Blocks : <<thread[t].k, b>> \in acked}]
    /\ UNCHANGED <<index, write_cache, cache_lock, acked>>
    /\ UNCHANGED offcar

\* put_keyed is called (plain.rs:228).
CallPut(t, k, block) ==
    /\ thread[t].pc = "idle"
    /\ thread' = [thread EXCEPT ![t] =
                    [NotCalling EXCEPT !.pc = "put_first", !.op = "put_keyed",
                                       !.k = k, !.block = block]]
    /\ UNCHANGED <<index, write_cache, index_lock, cache_lock, acked>>
    /\ UNCHANGED offcar

\* put_keyed: the first write guard (plain.rs:229).
PutFirst(t) ==
    /\ thread[t].pc = "put_first"
    /\ LockWrite(put_lock_order[1], t)
    /\ thread' = [thread EXCEPT ![t].pc = "put_second"]
    /\ UNCHANGED <<index, write_cache, acked>>
    /\ UNCHANGED offcar

\* put_keyed: the second write guard (plain.rs:230).
PutSecond(t) ==
    /\ thread[t].pc = "put_second"
    /\ LockWrite(put_lock_order[2], t)
    /\ thread' = [thread EXCEPT ![t].pc = "put_handle"]
    /\ UNCHANGED <<index, write_cache, acked>>
    /\ UNCHANGED offcar

\* The CIDs and blocks of the calls that contend for the locks: a CID of
\* the index and one the index may lack, the bytes on disk and other bytes.
LockCids == {1, 2}
LockBlocks == {1, 2}

\* A step of the call thread t is in.
LockStep(t) ==
    \/ LockIndexRead(t)
    \/ GetCache(t)
    \/ GetMatch(t)
    \/ PutFirst(t)
    \/ PutSecond(t)
    \/ PutHandle(t)

CarLockNext ==
    \E t \in Threads :
        \/ \E k \in LockCids : CallGet(t, k)
        \/ \E k \in LockCids, block \in LockBlocks : CallPut(t, k, block)
        \/ LockStep(t)
        \/ CallEnds(t)

(***************************************************************************)
(*        PlainCar::new: indexing an archive file (src/db/car/plain.rs)    *)
(***************************************************************************)

\* Block frames of a modelled file.
MaxFrames == 2

\* Length of the long block, which makes a frame body take a two-byte varint.
LongBlock == 130

\* The first byte of the wire form of a CID.
CidTag == 1

\* The CIDs of the modelled files, by their digests; their wire forms differ
\* in length.
Digests == {<<7>>, <<8, 9>>}

Payloads == {<<>>, <<5>>, <<6, 6>>, [j \in 1..LongBlock |-> 3]}

Versions == {0, 1, 2}

RootLists == {<<>>, <<<<7>>>>, <<<<8, 9>>, <<7>>>>}

\* Bytes missing at the end of the file.
Truncations == {0, 1}

\* An unsigned varint: seven bits a byte, low bits first, the high bit set
\* on every byte but the last.
RECURSIVE varint(_)
varint(n) == IF n < 128 THEN <<n>> ELSE <<128 + (n % 128)>> \o varint(n \div 128)

\* The wire form of a CID: self-describing, so that a reader finds its end.
cid_bytes(c) == <<CidTag, Len(c)>> \o c

RECURSIVE concat(_)
concat(ss) == IF ss = <<>> THEN <<>> ELSE Head(ss) \o concat(Tail(ss))

\* A varint frame: the body length, then the body.
frame(body) == varint(Len(body)) \o body

header_body(version, roots) ==
    <<version, Len(roots)>> \o concat([j \in 1..Len(roots) |-> cid_bytes(roots[j])])

\* The bytes of a CARv1 file with this header and these blocks.
car_bytes(version, roots, blocks) ==
    frame(header_body(version, roots))
    \o concat([j \in 1..Len(blocks) |-> frame(cid_bytes(blocks[j].cid) \o blocks[j].data)])

Frames == UNION {[1..n -> [cid : Digests, data : Payloads]] : n \in 0..MaxFrames}

\* read_varint (integer_encoding) at offset pos.
RECURSIVE read_varint(_, _, _, _)
read_varint(bytes, pos, mult, acc) ==
    IF pos >= Len(bytes)
    THEN [tag |-> "err", value |-> 0, pos |-> pos]
    ELSE LET b == bytes[pos + 1] IN
         IF b < 128
         THEN [tag |-> "ok", value |-> acc + b * mult, pos |-> pos + 1]
         ELSE read_varint(bytes, pos + 1, mult * 128, acc + (b - 128) * mult)

\* read_varint_body_length_or_eof (plain.rs:369-376)
read_varint_body_length_or_eof(bytes, pos) ==
    IF pos >= Len(bytes)
    THEN [tag |-> "eof", value |-> 0, pos |-> pos]
    ELSE read_varint(bytes, pos, 1, 0)

\* Cid::read_bytes at offset pos.
read_cid(bytes, pos) ==
    IF pos + 2 > Len(bytes) \/ bytes[pos + 1] # CidTag
    THEN [tag |-> "err", cid |-> <<>>, pos |-> pos]
    ELSE LET n == bytes[pos + 2] IN
         IF pos + 2 + n > Len(bytes)
         THEN [tag |-> "err", cid |-> <<>>, pos |-> pos]
         ELSE [tag |-> "ok", cid |-> SubSeq(bytes, pos + 3, pos + 2 + n),
               pos |-> pos + 2 + n]

RECURSIVE read_cids(_, _, _, _)
read_cids(bytes, pos, n, acc) ==
    IF n = 0
    THEN [tag |-> "ok", cids |-> acc, pos |-> pos]
    ELSE LET c == read_cid(bytes, pos) IN
         IF c.tag = "err"
         THEN [tag |-> "err", cids |-> acc, pos |-> pos]
         ELSE read_cids(bytes, c.pos, n - 1, Append(acc, c.cid))

NoHeader == [tag |-> "err", version |-> 0, roots |-> <<>>, pos |-> 0]

\* read_header (plain.rs:308-314): the length, read_exact of the body, and
\* the decoding of the CarHeader.
read_header(bytes) ==
    LET l == read_varint_body_length_or_eof(bytes, 0) IN
    IF l.tag # "ok" \/ l.pos + l.value > Len(bytes) \/ l.value < 2
    THEN NoHeader
    ELSE LET r == read_cids(SubSeq(bytes, 1, l.pos + l.value), l.pos + 2,
                            bytes[l.pos + 2], <<>>)
         IN  IF r.tag = "err" \/ r.pos # l.pos + l.value
             THEN NoHeader
             ELSE [tag |-> "ok", version |-> bytes[l.pos + 1], roots |-> r.cids,
                   pos |-> l.pos + l.value]

\* get_roots_from_v1_header (plain.rs:284-292)
get_roots_from_v1_header(bytes) ==
    LET h == read_header(bytes) IN
    IF h.tag = "ok" /\ h.version = 1 /\ h.roots # <<>>
    THEN [tag |-> "ok", roots |-> h.roots, pos |-> h.pos]
    ELSE [tag |-> "err", roots |-> <<>>, pos |-> 0]

NoLocation == [tag |-> "err", cid |-> <<>>, offset |-> 0, length |-> 0, pos |-> 0]

\* read_block_data_location_and_skip taking the frame body for the block data.
read_block_data_location_at_body(bytes, pos) ==
    LET l == read_varint_body_length_or_eof(bytes, pos)
        c == read_cid(bytes, l.pos)
    IN  CASE l.tag = "eof" -> [NoLocation EXCEPT !.tag = "none"]
          [] l.tag = "err" -> NoLocation
          [] c.tag = "err" -> NoLocation
          [] OTHER -> [tag |-> "some", cid |-> c.cid, offset |-> l.pos,
                       length |-> l.value, pos |-> l.pos + l.value]

\* read_block_data_location_and_skip (plain.rs:332-357): Ok(None) at the end
\* of the file, else the CID of the frame, where its block data lies, and
\* the reader left at the next frame.
read_block_data_location_and_skip(bytes, pos) ==
    LET l == read_varint_body_length_or_eof(bytes, pos)
        frame_body_offset == l.pos
        c == read_cid(bytes, frame_body_offset)
        cid_length == c.pos - frame_body_offset
        block_data_offset == frame_body_offset + cid_length
        next_frame_offset == frame_body_offset + l.value
    IN  CASE l.tag = "eof" -> [NoLocation EXCEPT !.tag = "none"]
          [] l.tag = "err" -> NoLocation
          [] c.tag = "err" -> NoLocation
          [] next_frame_offset < block_data_offset -> [NoLocation EXCEPT !.tag = "panic"]
          [] OTHER -> [tag |-> "some", cid |-> c.cid, offset |-> block_data_offset,
                       length |-> next_frame_offset - block_data_offset,
                       pos |-> next_frame_offset]

\* CidHashMap::insert: a later frame of the same CID replaces the earlier one.
insert(map, k, v) == [c \in DOMAIN map \cup {k} |-> IF c = k THEN v ELSE map[c]]

\* iter::from_fn(|| read_block_data_location_and_skip(..).transpose())
\*     .collect::<Result<CidHashMap<_>, _>>() (plain.rs:134-136)
RECURSIVE collect(_, _, _)
collect(bytes, pos, map) ==
    LET f == read_block_data_location_and_skip(bytes, pos) IN
    CASE f.tag = "none" -> [tag |-> "ok", index |-> map]
      [] f.tag = "some" ->
            collect(bytes, f.pos, insert(map, f.cid, [offset |-> f.offset, length |-> f.length]))
      [] OTHER -> [tag |-> f.tag, index |-> <<>>]

NotBuilt == [tag |-> "none", index |-> <<>>, roots |-> <<>>]

\* PlainCar::new accepting a file without block frames.
new_without_blocks(bytes) ==
    LET r == get_roots_from_v1_header(bytes)
        i == collect(bytes, r.pos, <<>>)
    IN  CASE r.tag = "err" -> [NotBuilt EXCEPT !.tag = "err"]
          [] i.tag # "ok" -> [NotBuilt EXCEPT !.tag = i.tag]
          [] OTHER -> [tag |-> "ok", index |-> i.index, roots |-> r.roots]

\* PlainCar::new (plain.rs:124-152)
new(bytes) ==
    LET r == get_roots_from_v1_header(bytes)
        i == collect(bytes, r.pos, <<>>)
    IN  CASE r.tag = "err" -> [NotBuilt EXCEPT !.tag = "err"]
          [] i.tag # "ok" -> [NotBuilt EXCEPT !.tag = i.tag]
          [] DOMAIN i.index = {} -> [NotBuilt EXCEPT !.tag = "err"]
          [] OTHER -> [tag |-> "ok", index |-> i.index, roots |-> r.roots]

\* reader.read_exact_at(offset, &mut data) on the file (plain.rs:206-209)
read_exact_at_offset(bytes, offset, length) ==
    IF offset + length > Len(bytes)
    THEN [tag |-> "Err", ret |-> <<>>]
    ELSE [tag |-> "Some", ret |-> SubSeq(bytes, offset + 1, offset + length)]

\* Blockstore::get on a store just built: the write cache is empty, so the
\* arms are (Some, None) and (None, None) (plain.rs:204-217).
get(store, bytes, k) ==
    IF k \in DOMAIN store.index
    THEN read_exact_at_offset(bytes, store.index[k].offset, store.index[k].length)
    ELSE [tag |-> "None", ret |-> <<>>]

\* The reference store: the frames of the file read one after the other,
\* each body split into its CID and its data and put into a memory blockstore.
RECURSIVE load_frames(_, _, _)
load_frames(bytes, pos, store) ==
    LET l == read_varint_body_length_or_eof(bytes, pos) IN
    CASE l.tag = "eof" -> [tag |-> "ok", store |-> store]
      [] l.tag = "err" \/ l.pos + l.value > Len(bytes) -> [tag |-> "err", store |-> <<>>]
      [] OTHER ->
            LET body == SubSeq(bytes, l.pos + 1, l.pos + l.value)
                c == read_cid(body, 0)
            IN  IF c.tag = "err"
                THEN [tag |-> "err", store |-> <<>>]
                ELSE load_frames(bytes, l.pos + l.value,
                                 insert(store, c.cid, SubSeq(body, c.pos + 1, Len(body))))

load_car(bytes) ==
    LET h == read_header(bytes) IN
    IF h.tag # "ok" THEN [tag |-> "err", store |-> <<>>] ELSE load_frames(bytes, h.pos, <<>>)

NoFile == [version |-> 1, roots |-> <<>>, blocks |-> <<>>, cut |-> 0, bytes |-> <<>>]
NotFetched == [k |-> <<>>, tag |-> "none", ret |-> <<>>]

FileIdle ==
    /\ car_file = NoFile
    /\ plain = NotBuilt
    /\ fetched = NotFetched

\* PlainCar::new(reader) on the file.
CarNew ==
    /\ plain.tag = "none"
    /\ plain' = new(car_file.bytes)
    /\ UNCHANGED <<car_file, fetched>>
    /\ UNCHANGED offfile

\* Blockstore::get(k) on the store PlainCar::new returned.
CarGet(k) ==
    /\ plain.tag = "ok"
    /\ fetched' = [k |-> k] @@ get(plain, car_file.bytes, k)
    /\ UNCHANGED <<car_file, plain>>
    /\ UNCHANGED offfile

FileNext ==
    \/ CarNew
    \/ \E k \in Digests : CarGet(k)

(***************************************************************************)
(*       RollingStore and ProxyStore (node/db/src/rolling, memory.rs)      *)
(***************************************************************************)

\* Highest bucket index of a partition.
MaxBucket == 2

\* Highest capacity of the partition cache.
MaxCapacity == 2

\* Concurrent callers of get_writable_store.
MaxCallers == 2

Buckets == 0..MaxBucket
Callers == 1..MaxCallers
StoreKeys == {"k"}

\* const EPOCHS_IN_DAY: i64 = 2880 (proxy.rs:139).
EPOCHS_IN_DAY == 2880

\* The epochs rolling_by_epoch is called with: the first epoch of every
\* bucket and the last epoch of the first one.
Epochs == {b * EPOCHS_IN_DAY : b \in Buckets} \cup {EPOCHS_IN_DAY - 1}
StoreValues == {1, 2}

\* Option::None of a read.
NoValue == 0

\* MemoryDB::default(): an empty store.
EmptyDb == [k \in StoreKeys |-> NoValue]

\* cache.keys().min()
min(S) == CHOOSE m \in S : \A x \in S : m <= x

max(S) == CHOOSE m \in S : \A x \in S : m >= x

\* The n largest indices, largest first: index.sort_by(|a, b| b.cmp(a)) and
\* take(capacity) of RollingStore::new (rolling_store.rs:61-63).
RECURSIVE take_largest(_, _)
take_largest(S, n) ==
    IF S = {} \/ n = 0 THEN <<>> ELSE <<max(S)>> \o take_largest(S \ {max(S)}, n - 1)

\* The eviction loop with the bound of the loop one too high.
evict_above_capacity(open, cap) == IF Cardinality(open) > cap THEN {min(open)} ELSE {}

\* The eviction loop emptying the cache.
evict_all(open, cap) == IF Cardinality(open) > cap - 1 THEN open ELSE {}

\* The eviction loop removing the partitions of the largest indices.
RECURSIVE evict_max(_, _)
evict_max(open, cap) ==
    IF Cardinality(open) > cap - 1 /\ open # {}
    THEN {max(open)} \cup evict_max(open \ {max(open)}, cap)
    ELSE {}

\* while cache.len() > self.capacity - 1 { cache.remove(&min_index) ... }
\* (rolling_store.rs:94-105): the partitions the loop removes.
RECURSIVE evict(_, _)
evict(open, cap) ==
    IF Cardinality(open) > cap - 1 /\ open # {}
    THEN {min(open)} \cup evict(open \ {min(open)}, cap)
    ELSE {}

\* Instant::now() stored for partition i: i becomes the most recently accessed.
track_access(order, i) == SelectSeq(order, LAMBDA x : x # i) \o <<i>>

forget(order, gone) == SelectSeq(order, LAMBDA x : x \notin gone)

NoCall == [pc |-> "idle", index |-> 0, handle |-> -1, stale |-> FALSE, epoch |-> 0,
           wrote |-> <<>>]
NoResult == [op |-> "none", key |-> "k", index |-> 0, ret |-> NoValue, found |-> FALSE,
             oldest |-> -1, panicked |-> FALSE, warned |-> {}]

RollingIdle ==
    /\ capacity = 1
    /\ rolling = <<>>
    /\ persistent = EmptyDb
    /\ partition_cache = {}
    /\ last_valid_access = <<>>
    /\ flushed = {}
    /\ caller = [t \in Callers |-> NoCall]
    /\ last = NoResult

\* T::open(root_dir, index) (memory.rs:91-99): the partition of that index,
\* created empty when there is none.
open(dbs, bucket) ==
    [i \in DOMAIN dbs \cup {bucket} |-> IF i \in DOMAIN dbs THEN dbs[i] ELSE EmptyDb]

\* A handle on an evicted partition no longer shares its last_valid_access
\* with an entry of the cache.
Stale(calls, gone) ==
    [t \in Callers |-> IF calls[t].handle \in gone
                       THEN [calls[t] EXCEPT !.stale = TRUE]
                       ELSE calls[t]]

\* get_writable_store(index), up to the lookup under the read lock
\* (rolling_store.rs:78-85), starting from the caller state `base`.
lookup(t, bucket, base) ==
    /\ caller[t].pc = "idle"
    /\ IF bucket \in partition_cache
       THEN /\ caller' = [caller EXCEPT ![t] = [base EXCEPT !.handle = bucket]]
            /\ last' = NoResult
       ELSE /\ caller' = [caller EXCEPT ![t] = [base EXCEPT !.pc = "miss", !.index = bucket]]
            /\ last' = NoResult
    /\ UNCHANGED <<capacity, rolling, persistent, partition_cache, last_valid_access, flushed>>

GetWritableStore(t, bucket) ==
    /\ lookup(t, bucket, NoCall)
    /\ UNCHANGED offrs

\* The partition index of an epoch with the day one epoch shorter.
bucket_index_short_day(ep) == ep \div (EPOCHS_IN_DAY - 1)

\* let index = epoch / EPOCHS_IN_DAY; ... index as _ (proxy.rs:140-143), for
\* the epochs from 0 on, where the division of i64 rounds down and the cast
\* to usize keeps the value.
bucket_index(ep) == ep \div EPOCHS_IN_DAY

\* rolling_by_epoch(epoch) (proxy.rs:138-145), up to the first lookup of its
\* get_writable_store; the SplitStore writes through the handle it gets.
RollingByEpoch(t, ep) ==
    /\ bucket_index(ep) \in Buckets
    /\ lookup(t, bucket_index(ep), [NoCall EXCEPT !.epoch = ep])
    /\ UNCHANGED offrs

\* The cache after the eviction loop and the insert, with the partitions
\* whose flush failed left in it.
after_eviction_keeping_failed(cache, gone, failing, bucket) ==
    (cache \ (gone \ failing)) \cup {bucket}

\* The cache after the eviction loop (rolling_store.rs:94-105) and
\* cache.insert (rolling_store.rs:107): a partition is removed before its
\* flush is tried, whatever the flush returns.
after_eviction(cache, gone, failing, bucket) == (cache \ gone) \cup {bucket}

\* get_writable_store(index), under the write lock (rolling_store.rs:87-115):
\* the second lookup, T::open, the eviction loop with its flushes, of which
\* those of the partitions in `failing` return an error, and the insert.
OpenAndEvict(t, failing) ==
    LET bucket == caller[t].index
        gone == evict(partition_cache, capacity)
    IN  /\ caller[t].pc = "miss"
        /\ failing \subseteq gone
        /\ IF bucket \in partition_cache
           THEN /\ caller' = [caller EXCEPT ![t] = [NoCall EXCEPT !.handle = bucket,
                                                                 !.epoch = caller[t].epoch]]
                /\ last' = NoResult
                /\ UNCHANGED <<rolling, partition_cache, last_valid_access, flushed>>
           ELSE /\ rolling' = open(rolling, bucket)
                /\ partition_cache' = after_eviction(partition_cache, gone, failing, bucket)
                /\ flushed' = flushed \cup gone
                /\ last_valid_access' = forget(last_valid_access, gone) \o <<bucket>>
                /\ caller' = [Stale(caller, gone) EXCEPT
                                 ![t] = [NoCall EXCEPT !.handle = bucket,
                                                       !.epoch = caller[t].epoch]]
                /\ last' = [NoResult EXCEPT
                              !.op = "get_writable_store", !.index = bucket,
                              !.oldest = IF gone = {} THEN -1
                                         ELSE Head(last_valid_access),
                              !.warned = failing]
        /\ UNCHANGED <<capacity, persistent>>
        /\ UNCHANGED offrs

\* get_writable_store under the write lock, every flush returning Ok.
OpenPartition(t) == OpenAndEvict(t, {})

\* get_writable_store under the write lock, with a flush that fails and is
\* logged (rolling_store.rs:98-100).
OpenPartitionFlushFailing(t) ==
    \E failing \in (SUBSET evict(partition_cache, capacity)) \ {{}} :
        /\ caller[t].index \notin partition_cache
        /\ OpenAndEvict(t, failing)

\* Two callers opening partitions whose evictions may fail to flush.
FlushNext ==
    \/ \E t \in {1, 2}, bucket \in Buckets : GetWritableStore(t, bucket)
    \/ \E t \in {1, 2} : OpenPartition(t)
    \/ \E t \in {1, 2} : OpenPartitionFlushFailing(t)

\* TrackingStore::write through the handle a caller holds
\* (rolling_store.rs:215-222, memory.rs:22-31).
Write(t, k, v) ==
    LET h == caller[t].handle IN
    /\ caller[t].pc = "idle"
    /\ h # -1
    /\ last_valid_access' = IF caller[t].stale THEN last_valid_access
                            ELSE track_access(last_valid_access, h)
    /\ rolling' = [rolling EXCEPT ![h][k] = v]
    /\ last' = [NoResult EXCEPT !.op = "write", !.key = k]
    /\ UNCHANGED <<capacity, persistent, partition_cache, flushed, caller>>
    /\ UNCHANGED offrs

\* TrackingStore::delete through the handle a caller holds
\* (rolling_store.rs:224-230, memory.rs:33-39).
Delete(t, k) ==
    LET h == caller[t].handle IN
    /\ caller[t].pc = "idle"
    /\ h # -1
    /\ last_valid_access' = IF caller[t].stale THEN last_valid_access
                            ELSE track_access(last_valid_access, h)
    /\ rolling' = [rolling EXCEPT ![h][k] = NoValue]
    /\ last' = [NoResult EXCEPT !.op = "delete", !.key = k]
    /\ UNCHANGED <<capacity, persistent, partition_cache, flushed, caller>>
    /\ UNCHANGED offrs

\* The write of the ProxyStore as the line commented out has it: redirected
\* to the persistent store.
proxy_write_to_persistent(db, k, v) == [panicked |-> FALSE, db |-> [db EXCEPT ![k] = v]]

\* ProxyStore's ReadWriteStore::write (proxy.rs:115-122): unimplemented!().
proxy_write(db, k, v) == [panicked |-> TRUE, db |-> db]

\* ProxyStore's ReadWriteStore::delete (proxy.rs:124-130): unimplemented!().
proxy_delete(db, k) == [panicked |-> TRUE, db |-> db]

\* ProxyStore's Blockstore::put_keyed (proxy.rs:105-108): unimplemented!().
proxy_put_keyed(db, k, v) == [panicked |-> TRUE, db |-> db]

\* A call of the write interface of the ProxyStore itself.
ProxyCall(op, k, outcome) ==
    /\ persistent' = outcome.db
    /\ last' = [NoResult EXCEPT !.op = op, !.key = k, !.panicked = outcome.panicked]
    /\ UNCHANGED <<capacity, rolling, partition_cache, last_valid_access, flushed, caller>>

ProxyPutKeyed(k, v) ==
    /\ ProxyCall("proxy_put_keyed", k, proxy_put_keyed(persistent, k, v))
    /\ UNCHANGED offrs

ProxyWrite(k, v) ==
    /\ ProxyCall("proxy_write", k, proxy_write(persistent, k, v))
    /\ UNCHANGED offrs

ProxyDelete(k) ==
    /\ ProxyCall("proxy_delete", k, proxy_delete(persistent, k))
    /\ UNCHANGED offrs

\* A write to the persistent store, through persistent().
PersistentWrite(k, v) ==
    /\ persistent[k] # v
    /\ persistent' = [persistent EXCEPT ![k] = v]
    /\ last' = NoResult
    /\ UNCHANGED <<capacity, rolling, partition_cache, last_valid_access, flushed, caller>>
    /\ UNCHANGED offrs

\* The values the partitions evicted and not reopened hold for k.
StoredInEvicted(k) ==
    {rolling[i][k] : i \in flushed \ partition_cache} \ {NoValue}

\* The open partitions that hold k.
Holding(k) == {i \in partition_cache : rolling[i][k] # NoValue}

\* RollingStore::read and exists (rolling_store.rs:143-165): the open
\* partitions in the order of the hash map, the first that holds the key,
\* whose access TrackingStore::read and exists track.
RollingLookup(op, via, k) ==
    IF Holding(k) = {}
    THEN /\ last' = [NoResult EXCEPT !.op = op, !.key = k, !.index = via]
         /\ UNCHANGED last_valid_access
    ELSE \E i \in Holding(k) :
            /\ last' = [NoResult EXCEPT !.op = op, !.key = k, !.index = via,
                                        !.found = TRUE,
                                        !.ret = IF op = "read" THEN rolling[i][k] ELSE NoValue]
            /\ last_valid_access' = track_access(last_valid_access, i)

\* The dispatch of ProxyStore::read with the rolling store asked first.
rolling_miss(k) == persistent[k] # NoValue /\ Holding(k) = {}

\* if let Some(data) = self.persistent().read(key) (proxy.rs:45): the
\* persistent store holds the key and answers.
persistent_hit(k) == persistent[k] # NoValue

\* ReadStore::read of the RollingStore (via = 0) and of the ProxyStore
\* (via = 1, proxy.rs:41-50).
Read(via, k) ==
    /\ IF via = 1 /\ persistent_hit(k)
       THEN /\ last' = [NoResult EXCEPT !.op = "read", !.key = k, !.index = via,
                                        !.found = TRUE, !.ret = persistent[k]]
            /\ UNCHANGED last_valid_access
       ELSE RollingLookup("read", via, k)
    /\ UNCHANGED <<capacity, rolling, persistent, partition_cache, flushed, caller>>
    /\ UNCHANGED offrs

\* ReadStore::exists of the RollingStore (via = 0) and of the ProxyStore
\* (via = 1, proxy.rs:52-57).
Exists(via, k) ==
    /\ IF via = 1 /\ persistent_hit(k)
       THEN /\ last' = [NoResult EXCEPT !.op = "exists", !.key = k, !.index = via,
                                        !.found = TRUE]
            /\ UNCHANGED last_valid_access
       ELSE RollingLookup("exists", via, k)
    /\ UNCHANGED <<capacity, rolling, persistent, partition_cache, flushed, caller>>
    /\ UNCHANGED offrs

\* SplitStore::put_keyed (proxy.rs:164-166): TrackingStore::write through
\* the handle `w` of the SplitStore, which remembers what it wrote last.
SplitPut(t, k, v) ==
    LET h == caller[t].handle IN
    /\ caller[t].pc = "idle"
    /\ h # -1
    /\ last_valid_access' = IF caller[t].stale THEN last_valid_access
                            ELSE track_access(last_valid_access, h)
    /\ rolling' = [rolling EXCEPT ![h][k] = v]
    /\ caller' = [caller EXCEPT ![t].wrote = <<k, v>>]
    /\ last' = [NoResult EXCEPT !.op = "write", !.key = k]
    /\ UNCHANGED <<capacity, persistent, partition_cache, flushed>>
    /\ UNCHANGED offrs

\* SplitStore::get (proxy.rs:160-162): ProxyStore::read through `r`, by the
\* caller that holds the SplitStore.
SplitGet(t, k) ==
    /\ caller[t].pc = "idle"
    /\ caller[t].handle # -1
    /\ Read(1, k)

\* Read-your-writes: caller 1 takes the SplitStore of an epoch, puts and
\* gets through it, while caller 2 asks for writable stores of its own.
ReadBackNext ==
    \/ \E ep \in Epochs : RollingByEpoch(1, ep)
    \/ \E bucket \in Buckets : GetWritableStore(2, bucket)
    \/ \E t \in {1, 2} : OpenPartition(t)
    \/ \E k \in StoreKeys, v \in StoreValues : SplitPut(1, k, v)
    \/ \E k \in StoreKeys : SplitGet(1, k)

\* ---- The four operations of a TrackingStore, through a handle ----
TrackingOps == {"tracking_read", "tracking_exists", "tracking_write", "tracking_delete"}

\* Every operation calling track_access.
tracks_always(op, opt) == TRUE

\* Whether the operation calls track_access: write and delete do before
\* they touch the store (rolling_store.rs:220, 228), read and exists only
\* when the store has the key (rolling_store.rs:185-187, 195-197).
tracks(op, opt) == op \in {"tracking_write", "tracking_delete"} \/ opt # NoValue

\* What the operation leaves in the store under the key.
stored(op, opt, v) ==
    IF op = "tracking_write" THEN v
    ELSE IF op = "tracking_delete" THEN NoValue
    ELSE opt

\* TrackingStore::read, exists, write or delete (rolling_store.rs:176-231)
\* through the handle caller t holds on a partition of the cache.
Through(t, op, k, v) ==
    LET h == caller[t].handle
        opt == rolling[h][k]
    IN  /\ caller[t].pc = "idle"
        /\ h # -1
        /\ ~caller[t].stale
        /\ last_valid_access' = IF tracks(op, opt) THEN track_access(last_valid_access, h)
                                ELSE last_valid_access
        /\ rolling' = [rolling EXCEPT ![h][k] = stored(op, opt, v)]
        /\ last' = [NoResult EXCEPT
                      !.op = op, !.key = k, !.index = h,
                      !.found = (op \in {"tracking_read", "tracking_exists"} /\ opt # NoValue),
                      !.ret = IF op = "tracking_read" THEN opt ELSE NoValue]
        /\ UNCHANGED <<capacity, persistent, partition_cache, flushed, caller>>
        /\ UNCHANGED offrs

\* Caller 1 opens partitions and uses the handle it holds, while caller 2
\* opens partitions of its own.
TrackingNext ==
    \/ \E t \in {1, 2}, bucket \in Buckets : GetWritableStore(t, bucket)
    \/ \E t \in {1, 2} : OpenPartition(t)
    \/ \E op \in TrackingOps, k \in StoreKeys : Through(1, op, k, 1)

\* The partition cache under concurrent callers, and the reads that track
\* the accesses of the partitions.
RollingNext ==
    \/ \E t \in Callers, bucket \in Buckets : GetWritableStore(t, bucket)
    \/ \E t \in Callers : OpenPartition(t)
    \/ \E k \in StoreKeys : Read(0, k)

\* The write path: one writer that takes the SplitStore of an epoch and
\* writes and deletes through it, the write interface of the ProxyStore
\* itself, and writes to the persistent store.
SplitNext ==
    \/ \E ep \in Epochs : RollingByEpoch(1, ep)
    \/ OpenPartition(1)
    \/ \E k \in StoreKeys, v \in StoreValues : Write(1, k, v)
    \/ \E k \in StoreKeys : Delete(1, k)
    \/ \E k \in StoreKeys, v \in StoreValues : ProxyPutKeyed(k, v)
    \/ \E k \in StoreKeys, v \in StoreValues : ProxyWrite(k, v)
    \/ \E k \in StoreKeys : ProxyDelete(k)
    \/ \E k \in StoreKeys, v \in StoreValues : PersistentWrite(k, v)

\* The data path: one writer that opens partitions and writes through its
\* handle, writes to the persistent store, and the reads.
ProxyNext ==
    \/ \E bucket \in Buckets : GetWritableStore(1, bucket)
    \/ OpenPartition(1)
    \/ \E k \in StoreKeys, v \in StoreValues : Write(1, k, v)
    \/ \E k \in StoreKeys, v \in StoreValues : PersistentWrite(k, v)
    \/ \E via \in {0, 1}, k \in StoreKeys : Read(via, k)
    \/ \E via \in {0, 1}, k \in StoreKeys : Exists(via, k)

(***************************************************************************)
(*                 CidHashSet (ipld/src/cid_hashset.rs)                    *)
(***************************************************************************)

\* The CIDs the set is called with.
MaxSetCid == 3

\* The hashes a CID can have: the u64 of the hasher, scaled down so that
\* two CIDs can have the same hash.
MaxHash == 3

SetCids == 1..MaxSetCid
Hashes == 1..MaxHash

\* self.0.hasher().hash_one(cid) (cid_hashset.rs:12, 17).
hash_one(c) == hasher[c]

\* CidHashSet::insert with the result of HashSet::insert negated.
cid_set_insert_negated(set, c) ==
    LET hash == hash_one(c) IN [set |-> set \cup {hash}, ret |-> hash \in set]

\* CidHashSet::insert (cid_hashset.rs:11-14): HashSet::insert of the hash,
\* true iff the hash was not in the set.
cid_set_insert(set, c) ==
    LET hash == hash_one(c) IN [set |-> set \cup {hash}, ret |-> hash \notin set]

\* CidHashSet::contains (cid_hashset.rs:16-19).
cid_set_contains(set, c) == hash_one(c) \in set

NoAnswer == [op |-> "none", cid |-> 0, ret |-> FALSE]

NoWalk == [pc |-> "idle", epoch_of |-> <<>>, depth |-> 0, variant |-> "none",
           blocks_to_walk |-> <<>>, log |-> <<>>]

SetIdle ==
    /\ hasher = <<>>
    /\ hashes = {}
    /\ inserted = {}
    /\ answer = NoAnswer
    /\ snapshot = NoWalk

SetInsert(c) ==
    /\ hashes' = cid_set_insert(hashes, c).set
    /\ inserted' = inserted \cup {c}
    /\ answer' = [op |-> "insert", cid |-> c, ret |-> cid_set_insert(hashes, c).ret]
    /\ UNCHANGED <<hasher, snapshot>>
    /\ UNCHANGED offcid

SetContains(c) ==
    /\ answer' = [op |-> "contains", cid |-> c, ret |-> cid_set_contains(hashes, c)]
    /\ UNCHANGED <<hasher, hashes, inserted, snapshot>>
    /\ UNCHANGED offcid

SetNext ==
    \/ \E c \in SetCids : SetInsert(c)
    \/ \E c \in SetCids : SetContains(c)

\* ---- walk_snapshot over a chain of block headers ----
\* The headers are the CIDs; epoch_of gives the epoch of each, the tipset of
\* an epoch is the set of the headers of that epoch, and the parents() of a
\* header are the tipset of the epoch below. Genesis is header 1.

\* The chains: one genesis header, every epoch up to the head inhabited.
ChainShapes ==
    {f \in [SetCids -> 0..(MaxSetCid - 1)] :
        /\ \A c \in SetCids : f[c] = 0 <=> c = 1
        /\ \A c \in SetCids : f[c] > 0 => \E p \in SetCids : f[p] = f[c] - 1}

\* The recent-roots depths walk_snapshot is called with.
Depths == 0..MaxSetCid

\* The two walks of the sources: the one with a recent-roots depth, and the
\* one of the genesis crate, which follows the state root of genesis only.
Variants == {"recent_roots", "genesis"}

tipset_cids(f, e) == SetToSeq({c \in SetCids : f[c] = e})

head_epoch(f) == max({f[c] : c \in SetCids})

\* h.parents().cids()
parent_cids(f, c) == tipset_cids(f, f[c] - 1)

Logged(kind, c) == [kind |-> kind, cid |-> c]

\* What one iteration of the loop does with a header that was not seen.
process_header(w, next) ==
    LET e == w.epoch_of[next]
        incl_roots_epoch == head_epoch(w.epoch_of) - w.depth
        messages == IF w.variant = "recent_roots" /\ e > incl_roots_epoch
                    THEN <<Logged("messages", next)>> ELSE <<>>
        genesis_parents == IF e > 0 THEN <<>> ELSE <<Logged("load_parents", next)>>
        state_root == IF e = 0 \/ (w.variant = "recent_roots" /\ e > incl_roots_epoch)
                      THEN <<Logged("state_root", next)>> ELSE <<>>
    IN [w EXCEPT
          !.blocks_to_walk = IF e > 0 THEN Tail(@) \o parent_cids(w.epoch_of, next)
                             ELSE Tail(@),
          !.log = @ \o <<Logged("header", next)>> \o messages \o genesis_parents
                    \o state_root]

\* One iteration of `while let Some(next) = blocks_to_walk.pop_front()`.
WalkIterate ==
    /\ snapshot.pc = "loop"
    /\ snapshot.blocks_to_walk # <<>>
    /\ LET next == Head(snapshot.blocks_to_walk)
           ins == cid_set_insert(hashes, next)
       IN /\ hashes' = ins.set
          /\ snapshot' = IF ~ins.ret
                         THEN [snapshot EXCEPT !.blocks_to_walk = Tail(@)]
                         ELSE process_header(snapshot, next)
    /\ UNCHANGED <<hasher, inserted, answer>>
    /\ UNCHANGED offcid

\* The queue is empty: walk_snapshot returns Ok.
WalkReturn ==
    /\ snapshot.pc = "loop"
    /\ snapshot.blocks_to_walk = <<>>
    /\ snapshot' = [snapshot EXCEPT !.pc = "done"]
    /\ UNCHANGED <<hasher, hashes, inserted, answer>>
    /\ UNCHANGED offcid

SnapshotNext ==
    \/ WalkIterate
    \/ WalkReturn

(***************************************************************************)
(*          Database migrations (src/db/migration/migration_map.rs)        *)
(***************************************************************************)

\* The versions of the database.
MaxDbVersion == 3

\* The entries a MigrationsMap is built from.
MaxMigrations == 3

DbVersions == 1..MaxDbVersion

\* MigrationsMap::from_iter over a list of (from, (to, migrator)) entries.
RECURSIVE MigrationLists(_)
MigrationLists(n) ==
    IF n = 0 THEN {<<>>}
    ELSE LET shorter == MigrationLists(n - 1)
         IN  shorter \cup {Append(l, <<from, to>>) :
                             l \in {m \in shorter : Len(m) = n - 1},
                             from \in DbVersions, to \in DbVersions}

\* migrations_map.get_vec(from), mapped to the target versions
\* (migration_map.rs:129-133): the targets in the order of insertion.
RECURSIVE successors(_, _)
successors(entries, from) ==
    IF entries = <<>> THEN <<>>
    ELSE (IF Head(entries)[1] = from THEN <<Head(entries)[2]>> ELSE <<>>)
         \o successors(Tail(entries), from)

\* The path bfs rebuilds from the parents it recorded: seen[i] and the
\* nodes it was reached through, the start first.
RECURSIVE reverse_path(_, _, _)
reverse_path(seen, parent, i) ==
    IF parent[i] = 0 THEN <<seen[i]>>
    ELSE Append(reverse_path(seen, parent, parent[i]), seen[i])

\* bfs returned None.
NoPath == <<>>

\* The loop of pathfinding's bfs: the nodes in the order they were seen,
\* node i being expanded, `todo` its successors still to look at. A
\* successor that is the goal ends the search; one not seen yet is recorded
\* with node i as its parent.
RECURSIVE bfs_loop(_, _, _, _, _, _)
bfs_loop(entries, goal, seen, parent, i, todo) ==
    IF todo = <<>>
    THEN IF i + 1 > Len(seen) THEN NoPath
         ELSE bfs_loop(entries, goal, seen, parent, i + 1,
                       successors(entries, seen[i + 1]))
    ELSE LET next == Head(todo)
         IN  IF next = goal THEN Append(reverse_path(seen, parent, i), next)
             ELSE IF \E j \in 1..Len(seen) : seen[j] = next
                  THEN bfs_loop(entries, goal, seen, parent, i, Tail(todo))
                  ELSE bfs_loop(entries, goal, Append(seen, next), Append(parent, i),
                                i, Tail(todo))

\* bfs that does not test the start node before the search.
bfs_start_unchecked(start, entries, goal) ==
    bfs_loop(entries, goal, <<start>>, <<0>>, 1, successors(entries, start))

\* pathfinding::directed::bfs::bfs(start, successors, |to| to == goal)
\* (migration_map.rs:126-136): the start itself when it is the goal.
bfs(start, entries, goal) ==
    IF start = goal THEN <<start>>
    ELSE bfs_loop(entries, goal, <<start>>, <<0>>, 1, successors(entries, start))

\* .iter().tuple_windows().map(...) (migration_map.rs:139-156): the
\* Migration { from, to } of every two consecutive versions of the path.
tuple_windows(path) ==
    IF Len(path) < 2 THEN <<>>
    ELSE [j \in 1..(Len(path) - 1) |-> [from |-> path[j], to |-> path[j + 1]]]

NoChain == [tag |-> "none", start |-> 0, goal |-> 0, migrations |-> <<>>]

\* create_migration_chain_from_migrations (migration_map.rs:121-167).
create_migration_chain_from_migrations(start, goal, entries) ==
    LET found == bfs(start, entries, goal)
        result == tuple_windows(found)
    IN  IF found = NoPath \/ result = <<>>
        THEN [tag |-> "err", start |-> start, goal |-> goal, migrations |-> <<>>]
        ELSE [tag |-> "ok", start |-> start, goal |-> goal, migrations |-> result]

MigIdle ==
    /\ migrations_map = <<>>
    /\ chain = NoChain

\* One call over the map; the function keeps no state between calls.
CreateMigrationChain(start, goal) ==
    /\ chain = NoChain
    /\ chain' = create_migration_chain_from_migrations(start, goal, migrations_map)
    /\ UNCHANGED migrations_map
    /\ UNCHANGED offmig

MigNext == \E start \in DbVersions, goal \in DbVersions : CreateMigrationChain(start, goal)

IndexIdle ==
    /\ epochs = <<0>>
    /\ missing = {}
    /\ checkpoints = {}
    /\ skip_cache = <<>>
    /\ call = Idle
    /\ lookups = [who \in Lookups |-> NoLookup]
    /\ scan = NoScan

IndexInit ==
    /\ GcIdle
    /\ CarIdle
    /\ FileIdle
    /\ RollingIdle
    /\ SetIdle
    /\ MigIdle
    /\ \E s \in NullStarts, l \in NullLengths : epochs = ChainWith(s, l)
    /\ \E b \in PrunedBelow : missing = {k \in Keys : epoch(k) < b}
    /\ \E c \in SUBSET {k \in Keys : epoch(k) \in CheckpointEpochs} : checkpoints = c
    /\ skip_cache = <<>>
    /\ call = Idle
    /\ lookups = [who \in Lookups |-> NoLookup]
    /\ scan = NoScan

GetTipsetByHeight(from, to) ==
    /\ call.op = "idle"
    /\ LET r == get_tipset_by_height(from, to, skip_cache) IN
       /\ call' = Called("get_tipset_by_height", from, to, r, skip_cache)
       /\ skip_cache' = r.cache
    /\ UNCHANGED <<epochs, missing, checkpoints, lookups, scan>>
    /\ UNCHANGED offix

GetTipsetByHeightWithoutCache(from, to) ==
    /\ call.op = "idle"
    /\ LET r == get_tipset_by_height_without_cache(from, to, skip_cache) IN
       /\ call' = Called("get_tipset_by_height_without_cache", from, to, r, skip_cache)
       /\ skip_cache' = r.cache
    /\ UNCHANGED <<epochs, missing, checkpoints, lookups, scan>>
    /\ UNCHANGED offix

WalkBack(from, to) ==
    /\ call.op = "idle"
    /\ LET w == walk_back(from, to) IN
       call' = Called("walk_back", from, to, Res(w, skip_cache, w.loads, 0, {}, <<>>),
                       skip_cache)
    /\ UNCHANGED <<epochs, missing, checkpoints, skip_cache, lookups, scan>>
    /\ UNCHANGED offix

\* The caller takes the result; the index is ready for the next lookup.
Return ==
    /\ call.op # "idle"
    /\ call' = Idle
    /\ UNCHANGED <<epochs, missing, checkpoints, skip_cache, lookups, scan>>
    /\ UNCHANGED offix

IndexNext ==
    \/ \E from \in Froms, to \in Heights : GetTipsetByHeight(from, to)
    \/ \E from \in Froms, to \in Heights : GetTipsetByHeightWithoutCache(from, to)
    \/ \E from \in Froms, to \in Heights : WalkBack(from, to)
    \/ Return

SpecIndex == IndexInit /\ [][IndexNext]_vars

\* ---- get_tipset_by_height calls racing on one ChainIndex ----
\* A call takes the write lock of skip_cache twice per iteration at most:
\* for the get (index.rs:141) and, after a miss, for the put at the end of
\* fill_cache (index.rs:217). Each lock section is one step; the loads and
\* the tests between them read the immutable chain and the call's own
\* locals only, and are part of the step they follow.

\* The start points and heights of the racing calls: from the head down to
\* genesis through the entries at 40 and 20, and to a height just above the
\* target of the first entry.
RaceFroms == {k \in Keys : epoch(k) = MaxEpoch}
RaceHeights == {0, 22}

\* skip_cache.write().await.get(&cur).cloned() (index.rs:141)
cache_get(cache, cur) ==
    LET i == LruFind(cache, cur) IN
    IF i = 0 THEN [hit |-> FALSE, lbe |-> NoEntry, cache |-> cache]
    ELSE [hit |-> TRUE, lbe |-> cache[i].lbe, cache |-> LruPromote(cache, i)]

\* An iteration that goes on with the tipset of the entry, not its target.
after_entry_same_tipset(base, lbe) ==
    LET genesis_tipset_keys == genesis_from_checkpoint_tipset(lbe.tipset) IN
    IF genesis_tipset_keys # EmptyKeys
    THEN LET g == load_tipset(genesis_tipset_keys)
         IN [base EXCEPT !.pc = "done", !.ok = g.ok, !.ts = g.ts, !.cur = EmptyKeys]
    ELSE IF epoch(lbe.tipset) = base.to \/ lbe.parent_height < base.to
    THEN [base EXCEPT !.pc = "done", !.ok = TRUE, !.ts = lbe.tipset, !.cur = EmptyKeys]
    ELSE IF base.to > lbe.target_height
    THEN LET w == walk_back(lbe.tipset, base.to)
         IN [base EXCEPT !.pc = "done", !.ok = w.ok, !.ts = w.ts, !.cur = EmptyKeys]
    ELSE [base EXCEPT !.pc = "get", !.cur = lbe.tipset]

\* What an iteration does with the entry it obtained (index.rs:147-166):
\* return, or go on with the target of the entry.
after_entry(base, lbe) ==
    LET genesis_tipset_keys == genesis_from_checkpoint_tipset(lbe.tipset) IN
    IF genesis_tipset_keys # EmptyKeys
    THEN LET g == load_tipset(genesis_tipset_keys)
         IN [base EXCEPT !.pc = "done", !.ok = g.ok, !.ts = g.ts, !.cur = EmptyKeys]
    ELSE IF epoch(lbe.tipset) = base.to \/ lbe.parent_height < base.to
    THEN [base EXCEPT !.pc = "done", !.ok = TRUE, !.ts = lbe.tipset, !.cur = EmptyKeys]
    ELSE IF base.to > lbe.target_height
    THEN LET w == walk_back(lbe.tipset, base.to)
         IN [base EXCEPT !.pc = "done", !.ok = w.ok, !.ts = w.ts, !.cur = EmptyKeys]
    ELSE [base EXCEPT !.pc = "get", !.cur = lbe.target]

\* get_tipset_by_height up to the loop (index.rs:126-137).
Begin(who, from, to) ==
    /\ lookups[who].pc = "idle"
    /\ LET base == [NoLookup EXCEPT !.from = from, !.to = to] IN
       IF epoch(from) - to <= SKIP_LENGTH
       THEN LET w == walk_back(from, to) IN
            lookups' = [lookups EXCEPT ![who] =
                           [base EXCEPT !.pc = "done", !.ok = w.ok, !.ts = w.ts]]
       ELSE LET rounded == round_down(from) IN
            lookups' = [lookups EXCEPT ![who] =
                           IF ~rounded.ok THEN [base EXCEPT !.pc = "done"]
                           ELSE [base EXCEPT !.pc = "get", !.cur = rounded.ts]]
    /\ UNCHANGED <<epochs, missing, checkpoints, skip_cache, call, scan>>
    /\ UNCHANGED offix

\* The get under the write lock (index.rs:141) and, on a hit, the tests on
\* the cached entry.
CacheGet(who) ==
    /\ lookups[who].pc = "get"
    /\ LET g == cache_get(skip_cache, lookups[who].cur) IN
       /\ skip_cache' = g.cache
       /\ lookups' = [lookups EXCEPT ![who] =
                          IF g.hit THEN after_entry(lookups[who], g.lbe)
                          ELSE [lookups[who] EXCEPT !.pc = "fill"]]
    /\ UNCHANGED <<epochs, missing, checkpoints, call, scan>>
    /\ UNCHANGED offix

\* fill_cache after a miss: its loads, its put under the write lock
\* (index.rs:217) and the tests on the entry it returns.
Fill(who) ==
    /\ lookups[who].pc = "fill"
    /\ LET f == fill_cache(lookups[who].cur, skip_cache) IN
       /\ skip_cache' = f.cache
       /\ lookups' = [lookups EXCEPT ![who] =
              IF ~f.ok THEN [lookups[who] EXCEPT !.pc = "done", !.cur = EmptyKeys]
              ELSE after_entry(
                       [lookups[who] EXCEPT !.filled =
                            IF f.puts = 0 THEN @ ELSE @ \cup {lookups[who].cur}],
                       f.lbe)]
    /\ UNCHANGED <<epochs, missing, checkpoints, call, scan>>
    /\ UNCHANGED offix

\* The caller takes the result.
Finish(who) ==
    /\ lookups[who].pc = "done"
    /\ lookups' = [lookups EXCEPT ![who] = NoLookup]
    /\ UNCHANGED <<epochs, missing, checkpoints, skip_cache, call, scan>>
    /\ UNCHANGED offix

RaceNext ==
    \E who \in Lookups :
        \/ \E from \in RaceFroms, to \in RaceHeights : Begin(who, from, to)
        \/ CacheGet(who)
        \/ Fill(who)
        \/ Finish(who)

SpecRace == IndexInit /\ [][RaceNext]_vars

\* One caller making one call after the other, step by step.
LookupNext ==
    \/ \E from \in RaceFroms, to \in Heights : Begin(1, from, to)
    \/ CacheGet(1)
    \/ Fill(1)
    \/ Finish(1)

\* The call is between two steps of its loop; CacheGet or Fill is enabled.
InLoop == lookups[1].pc \in {"get", "fill"}

\* The call is a task the runtime polls while it is ready, and nobody else
\* holds the write lock of skip_cache: a call that can take its next step
\* does take it. This is weak fairness of CacheGet(1) \/ Fill(1), with its
\* enabling condition and its steps written out.
LookupFairness ==
    \/ []<>(~InLoop)
    \/ []<><<InLoop /\ lookups'[1] # lookups[1]>>_vars

SpecLookupLive == IndexInit /\ [][LookupNext]_vars /\ LookupFairness

\* ---- The cooperative yield of the lookback loop (index.rs:137-172) ----
\* The loop of a lookup over a chain of thousands of epochs, reduced to what
\* decides the yield: whether an iteration returns or goes on is an input,
\* `counter` is the local of the code, `since` counts the iterations
\* executed since the last yield (since the start before the first one).

\* The end of an iteration that goes on (index.rs:168-173).
next_counter(counter) ==
    IF counter = MAX_COUNT THEN [counter |-> 0, yield |-> TRUE]
    ELSE [counter |-> counter + 1, yield |-> FALSE]

\* let mut counter = 0; loop { ... } (index.rs:138-139)
ScanBegin ==
    /\ scan.pc = "idle"
    /\ scan' = [NoScan EXCEPT !.pc = "loop"]
    /\ UNCHANGED <<epochs, missing, checkpoints, skip_cache, call, lookups>>
    /\ UNCHANGED offix

\* An iteration that reaches the end of the loop body.
ScanIterate ==
    /\ scan.pc \in {"loop", "yielded"}
    /\ scan.iterations < MaxIterations
    /\ LET n == next_counter(scan.counter) IN
       scan' = [pc |-> IF n.yield THEN "yielded" ELSE "loop",
                counter |-> n.counter,
                since |-> IF scan.pc = "yielded" THEN 1 ELSE scan.since + 1,
                iterations |-> scan.iterations + 1,
                yields |-> scan.yields + (IF n.yield THEN 1 ELSE 0)]
    /\ UNCHANGED <<epochs, missing, checkpoints, skip_cache, call, lookups>>
    /\ UNCHANGED offix

\* An iteration that returns (index.rs:150-158).
ScanReturn ==
    /\ scan.pc \in {"loop", "yielded"}
    /\ scan' = NoScan
    /\ UNCHANGED <<epochs, missing, checkpoints, skip_cache, call, lookups>>
    /\ UNCHANGED offix

ScanNext == ScanBegin \/ ScanIterate \/ ScanReturn

SpecScan == IndexInit /\ [][ScanNext]_vars

\* A fresh node: the genesis blocks are in the current partition (but for a
\* block the store never got).
GcInit ==
    /\ IndexIdle
    /\ CarIdle
    /\ FileIdle
    /\ RollingIdle
    /\ SetIdle
    /\ MigIdle
    /\ head = 0
    /\ fault \in FaultKinds
    /\ io_faults = (fault = "io")
    /\ parts = [id \in {0, 1} |->
                   IF id = 1
                   THEN BlocksOf(0) \ (IF fault = "missing" THEN {FaultBlock} ELSE {})
                   ELSE {}]
    /\ current = 1
    /\ lock = {}
    /\ passive = PassiveSleeps
    /\ gc_rx = <<>>
    /\ responses = [r \in Responders |-> "unsent"]
    /\ ninv = 0
    /\ inv = [i \in Invs |-> NoFrame]
    /\ chan = [i \in Invs |-> <<>>]
    /\ writer = [i \in Invs |-> NoWriter]

SpecGC == GcInit /\ [][GcNext]_vars

\* A step of the event loop, of a task spawned for collect_once or of a
\* write task.
TaskStep ==
    \/ EventRecv
    \/ \E i \in Invs : TryLock(i) \/ Walk(i) \/ WriterRecv(i) \/ WriterFinish(i) \/ Join(i)

\* The runtime does not leave every ready task waiting for ever: while the
\* event loop or a task can take a step, one of them does.
GcFairness == WF_vars(TaskStep)

SpecGCLive == GcInit /\ [][GcNext]_vars /\ GcFairness

\* PlainCar::new: the index holds the blocks of the file, at least one.
CarInit ==
    /\ IndexIdle
    /\ GcIdle
    /\ FileIdle
    /\ RollingIdle
    /\ SetIdle
    /\ MigIdle
    /\ index \in (SUBSET Cids) \ {{}}
    /\ write_cache = [k \in Cids |-> NoBytes]
    /\ index_lock = {}
    /\ cache_lock = {}
    /\ thread = [t \in Threads |-> NotCalling]
    /\ acked = {}

SpecCar == CarInit /\ [][CarNext]_vars

SpecCarLocks == CarInit /\ [][CarLockNext]_vars

\* A file: a header, block frames, and possibly a byte missing at the end.
FileInit ==
    /\ IndexIdle
    /\ GcIdle
    /\ CarIdle
    /\ RollingIdle
    /\ SetIdle
    /\ MigIdle
    /\ \E version \in Versions, roots \in RootLists, blocks \in Frames, cut \in Truncations :
          LET bytes == car_bytes(version, roots, blocks) IN
          car_file = [version |-> version, roots |-> roots, blocks |-> blocks, cut |-> cut,
                      bytes |-> SubSeq(bytes, 1, Len(bytes) - cut)]
    /\ plain = NotBuilt
    /\ fetched = NotFetched

SpecFile == FileInit /\ [][FileNext]_vars

\* RollingStore::new (rolling_store.rs:41-76) over the partitions there are,
\* some of which hold a key, and ProxyStore::new over an empty persistent store.
RollingInit ==
    /\ IndexIdle
    /\ GcIdle
    /\ CarIdle
    /\ FileIdle
    /\ SetIdle
    /\ MigIdle
    /\ capacity \in 1..MaxCapacity
    /\ \E dirs \in SUBSET Buckets, full \in SUBSET Buckets :
          /\ full \in {{}, dirs \ {min(Buckets)}, dirs}
          /\ rolling = [i \in dirs |-> IF i \in full
                                      THEN [k \in StoreKeys |-> 1] ELSE EmptyDb]
          /\ last_valid_access = take_largest(dirs, capacity)
          /\ partition_cache = {last_valid_access[j] : j \in 1..Len(last_valid_access)}
    /\ persistent = EmptyDb
    /\ flushed = {}
    /\ caller = [t \in Callers |-> NoCall]
    /\ last = NoResult

SpecRolling == RollingInit /\ [][RollingNext]_vars

SpecProxy == RollingInit /\ [][ProxyNext]_vars

SpecSplit == RollingInit /\ [][SplitNext]_vars

SpecReadBack == RollingInit /\ [][ReadBackNext]_vars

SpecTracking == RollingInit /\ [][TrackingNext]_vars

SpecFlush == RollingInit /\ [][FlushNext]_vars

\* CidHashSet::default(): an empty set with the hasher it was built with.
SetInit ==
    /\ IndexIdle
    /\ GcIdle
    /\ CarIdle
    /\ FileIdle
    /\ RollingIdle
    /\ MigIdle
    /\ hasher \in [SetCids -> Hashes]
    /\ hashes = {}
    /\ inserted = {}
    /\ answer = NoAnswer
    /\ snapshot = NoWalk

SpecSet == SetInit /\ [][SetNext]_vars

\* walk_snapshot(tipset, depth, load_block) from the head tipset of a chain,
\* with CidHashSet::default() as its seen-set.
SnapshotInit ==
    /\ IndexIdle
    /\ GcIdle
    /\ CarIdle
    /\ FileIdle
    /\ RollingIdle
    /\ MigIdle
    /\ hasher \in [SetCids -> Hashes]
    /\ hashes = {}
    /\ inserted = {}
    /\ answer = NoAnswer
    /\ \E f \in ChainShapes, d \in Depths, v \in Variants :
          snapshot = [pc |-> "loop", epoch_of |-> f, depth |-> d, variant |-> v,
                      blocks_to_walk |-> tipset_cids(f, head_epoch(f)), log |-> <<>>]

SpecSnapshot == SnapshotInit /\ [][SnapshotNext]_vars

MigInit ==
    /\ IndexIdle
    /\ GcIdle
    /\ CarIdle
    /\ FileIdle
    /\ RollingIdle
    /\ SetIdle
    /\ migrations_map \in MigrationLists(MaxMigrations)
    /\ chain = NoChain

SpecMig == MigInit /\ [][MigNext]_vars

(***************************************************************************)
(*                  Properties of the garbage collector                    *)
(***************************************************************************)

\* The invocations past the try-lock of collect_once.
Collecting == {i \in Invs : inv[i].pc \in {"walk", "join"}}

\* The blocks the walk from the head tipset of invocation i visits.
WalkBlocks(i) == Range(walk_snapshot(inv[i].tipset, RecentRoots))

\* Invocation i returns `result` in this step.
ReturnsNow(i, result) ==
    inv[i].pc # "done" /\ inv'[i].pc = "done" /\ inv'[i].result = result

\* C1: when collect_once returns Ok for a head tipset H, every block the walk
\* from H visited is in the partition that is current when next_partition is
\* invoked, so it is still readable once the old partition is retired.
C1_VisitedBlocksSurviveSwap ==
    [][\A i \in Invs :
          ReturnsNow(i, "ok")
              => /\ WalkBlocks(i) \subseteq parts[current]
                 /\ WalkBlocks(i) \subseteq parts'[current' - 1]
                 /\ current' - 1 = writer[i].part]_vars

\* A second collection has returned Ok: the genesis blocks, which it found in
\* the old partition only, were copied and are in what is now the old partition.
C1_Witness ==
    /\ current >= 3
    /\ \E i \in Invs : inv[i].pc = "done" /\ inv[i].result = "ok"
    /\ {Header(0), StateRoot(0), GenesisParent} \subseteq parts[old]
    /\ parts[current] = {}

\* C2: if a step of collect_once fails (a missing block, a failing load or
\* decode, a failing send, a write task that returns an error or panics),
\* collect_once returns an error, and next_partition is not invoked in that
\* cycle: the current partition is the one of the start of the cycle and no
\* partition is deleted.
C2_FailureLeavesPartitions ==
    [][\A i \in Invs :
          /\ ReturnsNow(i, "failed")
                => /\ current' = current
                   /\ DOMAIN parts' = DOMAIN parts
                   /\ \A id \in DOMAIN parts : parts[id] \subseteq parts'[id]
                   /\ current = writer[i].part
          /\ (inv[i].pc = "join" /\ inv'[i].pc = "done"
              /\ writer[i].state \in {"err", "panicked"})
                => inv'[i].result = "failed"
          /\ (inv[i].pc = "walk" /\ inv[i].pos <= Len(walk_snapshot(inv[i].tipset, RecentRoots))
              /\ ~db_has(walk_snapshot(inv[i].tipset, RecentRoots)[inv[i].pos])
              /\ inv'[i] # inv[i])
                => inv'[i].result = "failed"]_vars

\* A collection has failed in the middle of its walk, with blocks still in
\* its channel.
C2_Witness ==
    \E i \in Invs : inv[i].pc = "done" /\ inv[i].result = "failed" /\ chan[i] # <<>>

\* C3: no two collect_once invocations are past the try-lock at once, and an
\* invocation that finds the lock held returns the in-progress error without
\* starting a walk, spawning a writer or touching a partition.
C3_OneCollectionAtATime ==
    /\ [](Cardinality(Collecting) <= 1)
    /\ [][\A i \in Invs :
             (inv[i].pc = "start" /\ lock # {} /\ inv'[i] # inv[i])
                 => /\ inv'[i].pc = "done"
                    /\ inv'[i].result = "in_progress"
                    /\ writer'[i] = NoWriter
                    /\ chan'[i] = <<>>
                    /\ parts' = parts
                    /\ current' = current
                    /\ lock' = lock]_vars

\* One invocation is collecting and another one has been turned away.
C3_Witness ==
    \E i, j \in Invs :
        /\ inv[i].pc = "walk"
        /\ inv[i].pos > 1
        /\ inv[j].pc = "done"
        /\ inv[j].result = "in_progress"

\* C4: the lock is released when the invocation that acquired it returns, so
\* a request is turned away with the in-progress error only while a
\* collection is running.
C4_RejectedOnlyWhileCollecting ==
    /\ [](\A i \in Invs : Holder(i) \in lock => i \in Collecting)
    /\ [][\A i \in Invs : ReturnsNow(i, "in_progress") => Collecting # {}]_vars

\* C5: next_partition is invoked only after the walk has returned Ok, tx has
\* been dropped and the write task has ended with Ok, with no block sent to
\* the writer left unwritten.
C5_SwapAfterWriterDrained ==
    [][current' # current
          => \E i \in Invs :
                /\ lock = {Holder(i)}
                /\ inv[i].pc = "join"
                /\ inv[i].pos = Len(walk_snapshot(inv[i].tipset, RecentRoots)) + 1
                /\ ~SenderOpen(i)
                /\ writer[i].state = "ok"
                /\ chan[i] = <<>>
                /\ writer[i].buf = <<>>
                /\ ReturnsNow(i, "ok")]_vars

\* The partitions were swapped by a collection whose write task had written
\* the blocks it was sent; the messages of genesis, beyond the recent-roots
\* depth, went with the retired partition.
C5_Witness ==
    /\ current >= 3
    /\ \E i \in Invs : inv[i].pc = "done" /\ inv[i].result = "ok" /\ inv[i].origin = "event"
    /\ head >= 1
    /\ Messages(0) \notin parts[old] \cup parts[current]

(***************************************************************************)
(*                       Properties of PlainCar                            *)
(***************************************************************************)

\* C10: for a CID that is not in the index of the archive file, once
\* put_keyed(cid, b) has returned Ok, every get(cid) called later returns
\* Some(b), whatever other get and put_keyed calls run before or beside it.
C10_GetAfterPutReturnsBlock ==
    \A t \in Threads :
        (thread[t].pc = "done" /\ thread[t].op = "get" /\ thread[t].k \notin index)
            => \A b \in thread[t].expect :
                   thread[t].tag = "Some" /\ thread[t].ret = b

\* A get has returned the block of an earlier put_keyed while a put_keyed of
\* other bytes for the same CID has panicked beside it.
C10_Witness ==
    \E t, u \in Threads :
        /\ thread[t].pc = "done"
        /\ thread[t].op = "get"
        /\ thread[t].expect # {}
        /\ thread[t].ret \in thread[t].expect
        /\ thread[u].pc = "done"
        /\ thread[u].op = "put_keyed"
        /\ thread[u].k = thread[t].k
        /\ thread[u].tag = "panic"

\* put_keyed of thread t returns (or unwinds) in this step.
PutReturns(t) == thread[t].pc = "put_handle" /\ thread'[t].pc = "done"

\* C11: put_keyed(cid, b) returns Ok and leaves the index and the write cache
\* as they were whenever cid is in the index, whatever b is, or the write
\* cache already holds cid with the bytes b.
C11_PutOfKnownBlockIsNoOp ==
    [][\A t \in Threads :
          (/\ PutReturns(t)
           /\ \/ thread[t].k \in index
              \/ write_cache[thread[t].k] = thread[t].block)
              => /\ thread'[t].tag = "Ok"
                 /\ index' = index
                 /\ write_cache' = write_cache]_vars

\* A put_keyed for a CID of the index has returned Ok next to a put_keyed
\* that repeated the bytes the write cache holds for another CID.
C11_Witness ==
    \E t, u \in Threads :
        /\ thread[t].pc = "done" /\ thread[t].op = "put_keyed"
        /\ thread[t].tag = "Ok"
        /\ thread[t].k \in index
        /\ write_cache[thread[t].k] = NoBytes
        /\ thread[u].pc = "put_handle"
        /\ thread[u].k \notin index
        /\ write_cache[thread[u].k] = thread[u].block

\* C12: put_keyed(cid, b2) panics whenever the write cache holds cid with
\* bytes b1 # b2 and cid is not in the index, and the write cache still maps
\* cid to b1 afterwards.
C12_PutOfOtherBytesPanics ==
    [][\A t \in Threads :
          (/\ PutReturns(t)
           /\ thread[t].k \notin index
           /\ write_cache[thread[t].k] # NoBytes
           /\ write_cache[thread[t].k] # thread[t].block)
              => /\ thread'[t].tag = "panic"
                 /\ write_cache' = write_cache
                 /\ index_lock' = release(index_lock, t)
                 /\ cache_lock' = release(cache_lock, t)]_vars

\* A put_keyed has panicked on bytes other than the cached ones, which are
\* still in the write cache.
C12_Witness ==
    \E t \in Threads :
        /\ thread[t].pc = "done" /\ thread[t].op = "put_keyed"
        /\ thread[t].tag = "panic"
        /\ thread[t].k \notin index
        /\ write_cache[thread[t].k] \notin {NoBytes, thread[t].block}
        /\ <<thread[t].k, write_cache[thread[t].k]>> \in acked

(***************************************************************************)
(*                     Properties of PlainCar::new                         *)
(***************************************************************************)

\* The file is a CARv1 file: whole, of version 1, with a root and a block frame.
WellFormed ==
    /\ car_file.cut = 0
    /\ car_file.version = 1
    /\ car_file.roots # <<>>
    /\ car_file.blocks # <<>>

FrameCids == {car_file.blocks[j].cid : j \in 1..Len(car_file.blocks)}

\* C14: for a well-formed file, the keys of the index PlainCar::new builds
\* are the distinct CIDs of the block frames of the file, and get returns
\* for each of them the bytes the reference store holds, which is built by
\* loading the frames of the same file one after the other.
C14_IndexMatchesReferenceStore ==
    (WellFormed /\ plain.tag # "none")
        => /\ plain.tag = "ok"
           /\ DOMAIN plain.index = FrameCids
           /\ load_car(car_file.bytes).tag = "ok"
           /\ DOMAIN load_car(car_file.bytes).store = FrameCids
           /\ (fetched.tag # "none" /\ fetched.k \in FrameCids)
                 => /\ fetched.tag = "Some"
                    /\ fetched.ret = load_car(car_file.bytes).store[fetched.k]

\* The long block was fetched from a file with two frames, after a frame
\* whose body length takes one byte.
C14_Witness ==
    /\ WellFormed
    /\ Len(car_file.blocks) = MaxFrames
    /\ Len(car_file.blocks[1].data) = 1
    /\ car_file.blocks[1].cid # car_file.blocks[MaxFrames].cid
    /\ fetched.tag = "Some"
    /\ Len(fetched.ret) = LongBlock
    /\ fetched.k = car_file.blocks[MaxFrames].cid

\* C15: PlainCar::new returns an error, and no store, when the version of
\* the header is not 1, when the header has no roots or when the file has no
\* block frame; it returns a store for a file with version 1, a root and
\* well-formed block frames, at least one.
C15_NewRejectsBadFiles ==
    plain.tag # "none"
        => /\ (\/ car_file.version # 1
               \/ car_file.roots = <<>>
               \/ car_file.blocks = <<>>)
                 => (plain.tag = "err" /\ plain.index = <<>>)
           /\ WellFormed => (plain.tag = "ok" /\ plain.roots = car_file.roots)

\* PlainCar::new has turned down a whole file of version 1 with roots and
\* no block frame.
C15_Witness ==
    /\ plain.tag = "err"
    /\ car_file.version = 1
    /\ car_file.roots # <<>>
    /\ car_file.blocks = <<>>
    /\ car_file.cut = 0

\* The blocks RollingDB::get returns: those of the current partition and
\* of the old one.
Readable == parts[current] \cup parts[old]

\* C24: when collect_once runs a second time for the head tipset of a run
\* that returned Ok, and nothing was written to the store since the swap of
\* that run, the blocks readable from the store after the second run are
\* those readable before it, that is, after the first run.
C24_SecondCollectionKeepsReadableSet ==
    [][\A i \in Invs :
          (/\ inv[i].pc = "join"
           /\ inv'[i].pc = "done"
           /\ inv'[i].result = "ok"
           /\ \E j \in Invs \ {i} : /\ inv[j].pc = "done"
                                    /\ inv[j].result = "ok"
                                    /\ inv[j].tipset = inv[i].tipset
           /\ parts[current] \subseteq parts[old])
              => parts'[current'] \cup parts'[current' - 1] = Readable]_vars

\* The results a responder can receive.
Results == {"ok", "failed", "in_progress"}

\* C23: every responder sent on the trigger channel eventually receives a
\* Result; it receives one only, and it is the result of the collect_once
\* spawned for it; and the event loop can receive a waiting request
\* whatever the collections spawned earlier are doing.
C23_EveryRequestIsAnswered ==
    /\ \A r \in Responders : (responses[r] = "waiting") ~> (responses[r] \in Results)
    /\ [][\A r \in Responders :
             /\ responses[r] \in Results => responses'[r] = responses[r]
             /\ (responses[r] = "waiting" /\ responses'[r] # "waiting")
                   => \E i \in Invs : /\ inv[i].origin = "event"
                                      /\ inv[i].responder = r
                                      /\ inv[i].pc # "done"
                                      /\ inv'[i].pc = "done"
                                      /\ responses'[r] = inv'[i].result]_vars
    /\ [](gc_rx # <<>> => ENABLED EventRecv)

\* A request has been answered with the result of its collection, which
\* was spawned while the collection of an earlier request was walking.
C23_Witness ==
    /\ responses[1] = "waiting"
    /\ inv[1].pc = "walk"
    /\ inv[1].responder = 1
    /\ inv[2].origin = "event"
    /\ inv[2].responder = 2
    /\ inv[2].pc = "done"
    /\ responses[2] = inv[2].result

(***************************************************************************)
(*                 Properties of the RollingStore cache                    *)
(***************************************************************************)

\* The step of get_writable_store that opens a partition the cache lacks.
Opens(t) ==
    /\ caller[t].pc = "miss"
    /\ caller'[t].pc = "idle"
    /\ caller[t].index \notin partition_cache

\* The partitions a step removes from the cache, and those it leaves open.
Evicted == partition_cache \ partition_cache'

Remaining == partition_cache \cap partition_cache'

\* The place of an open partition in the order of the last accesses: the
\* smaller, the older its last access.
Age(i) == CHOOSE j \in 1..Len(last_valid_access) : last_valid_access[j] = i

\* C16: with a capacity of at least one, after RollingStore::new and after
\* any interleaving of get_writable_store calls the partition cache never
\* holds more open partitions than the capacity.
C16_CacheWithinCapacity ==
    capacity >= 1 => Cardinality(partition_cache) <= capacity

\* A call has evicted a partition and left the cache full while another
\* caller is between its two lookups.
C16_Witness ==
    /\ last.op = "get_writable_store"
    /\ last.oldest # -1
    /\ Cardinality(partition_cache) = capacity
    /\ \E t \in Callers : caller[t].pc = "miss" /\ caller[t].index # last.index

\* C17: when get_writable_store(index) opens a partition the cache lacks
\* while the cache holds capacity partitions, the cache loses exactly the
\* partition of the smallest index open before the call, that partition is
\* flushed, and the requested partition is in the cache and handed to the
\* caller when the call returns.
C17_EvictsSmallestIndex ==
    [][\A t \in Callers :
          (Opens(t) /\ Cardinality(partition_cache) = capacity)
              => /\ partition_cache' =
                        (partition_cache \ {min(partition_cache)}) \cup {caller[t].index}
                 /\ min(partition_cache) \in flushed'
                 /\ caller[t].index \in partition_cache'
                 /\ caller'[t].handle = caller[t].index]_vars

\* A call on a store of capacity two has opened a partition, evicted and
\* flushed another and left the requested one open beside a third.
C17_Witness ==
    /\ capacity = 2
    /\ last.op = "get_writable_store"
    /\ last.oldest # -1
    /\ last.index \in partition_cache
    /\ Cardinality(partition_cache) = 2
    /\ flushed \ partition_cache # {}

\* C18 as stated: every partition the cache evicts was accessed less
\* recently than every partition it keeps open.
C18_EvictsLeastRecentlyUsed ==
    [][\A g \in Evicted, r \in Remaining : Age(g) < Age(r)]_vars

\* C18, amended: every partition the cache evicts has a smaller bucket index
\* than every partition it keeps open, whatever their last accesses are.
C18_EvictsBelowRemaining ==
    [][\A g \in Evicted, r \in Remaining : g < r]_vars

\* A call has evicted a partition while the partition whose last access was
\* the oldest stays open.
C18_Witness ==
    /\ last.op = "get_writable_store"
    /\ last.oldest # -1
    /\ last.oldest \in partition_cache
    /\ last.oldest # last.index

(***************************************************************************)
(*                   Properties of the read path                           *)
(***************************************************************************)

\* The values some store holds for k: the persistent store or a partition,
\* open or not.
StoredAnywhere(k) ==
    ({persistent[k]} \cup {rolling[i][k] : i \in DOMAIN rolling}) \ {NoValue}

\* C19: after a partition has been evicted from the cache, a read or an
\* exists through the RollingStore or through the ProxyStore, for a key the
\* evicted partition holds, still finds the key, and the read returns a
\* stored value.
C19_ReadsOfEvictedDataSucceed ==
    (last.op \in {"read", "exists"} /\ StoredInEvicted(last.key) # {})
        => /\ last.found
           /\ last.op = "read" => last.ret \in StoredAnywhere(last.key)

\* C20: ProxyStore::read returns the value of the persistent store when
\* that store holds the key, and leaves the accesses of the rolling
\* partitions as they were; otherwise it returns Some(v) for a value v an
\* open partition holds when there is such a partition, and None when no
\* open partition holds the key.
C20_ProxyReadsPersistentFirst ==
    [][(last'.op = "read" /\ last'.index = 1)
          => LET k == last'.key
                 holders == {i \in partition_cache : rolling[i][k] # NoValue}
             IN  IF persistent[k] # NoValue
                 THEN /\ last'.found
                      /\ last'.ret = persistent[k]
                      /\ last_valid_access' = last_valid_access
                 ELSE /\ last'.found <=> holders # {}
                      /\ last'.found => last'.ret \in {rolling[i][k] : i \in holders}
                      /\ ~last'.found => last'.ret = NoValue]_vars

\* A read through the ProxyStore has returned the value of the persistent
\* store while an open partition holds another value for the key.
C20_Witness ==
    /\ last.op = "read"
    /\ last.index = 1
    /\ persistent[last.key] # NoValue
    /\ last.ret = persistent[last.key]
    /\ \E i \in partition_cache : rolling[i][last.key] \notin {NoValue, last.ret}

(***************************************************************************)
(*                   Properties of the write path                          *)
(***************************************************************************)

\* C21: every call of put_keyed, write or delete on the ProxyStore itself
\* panics and changes neither the persistent store nor any partition.
C21_ProxyWritesPanic ==
    [][last'.op \in {"proxy_put_keyed", "proxy_write", "proxy_delete"}
          => /\ last'.panicked
             /\ persistent' = persistent
             /\ rolling' = rolling]_vars

\* A write on the ProxyStore has panicked over a persistent store and a
\* partition that both hold the key.
C21_Witness ==
    /\ last.op = "proxy_write"
    /\ last.panicked
    /\ persistent[last.key] # NoValue
    /\ \E i \in DOMAIN rolling : rolling[i][last.key] # NoValue

\* C22: a write or a delete through the SplitStore that rolling_by_epoch(e)
\* returned, for an epoch e from 0 on, changes at most the contents of the
\* partition of index e / 2880; the persistent store, the set of partitions
\* and the contents of every other partition stay as they were.
C22_WritesGoToTheBucketOfTheEpoch ==
    [][last'.op \in {"write", "delete"}
          => /\ persistent' = persistent
             /\ DOMAIN rolling' = DOMAIN rolling
             /\ \A i \in DOMAIN rolling :
                   i # caller[1].epoch \div 2880 => rolling'[i] = rolling[i]]_vars

\* A write through the SplitStore of the last epoch of the first day has
\* stored the key in partition 0 while partition 1 exists without it.
C22_Witness ==
    /\ last.op = "write"
    /\ caller[1].epoch = 2879
    /\ caller[1].handle = 0
    /\ rolling[0][last.key] # NoValue
    /\ 1 \in DOMAIN rolling
    /\ rolling[1][last.key] = NoValue

(***************************************************************************)
(*                     Properties of the CidHashSet                        *)
(***************************************************************************)

\* The hasher gives the CIDs of S pairwise distinct hashes.
DistinctHashes(S) == \A c \in S, d \in S : hasher[c] = hasher[d] => c = d

\* C25: insert(c) returns true iff the hash of c was not stored before the
\* call; contains(c) is true for every CID that was inserted, whatever was
\* inserted after it; and among CIDs with pairwise distinct hashes insert
\* and contains answer as an exact set of the inserted CIDs does.
C25_CidHashSetIsExactWithoutCollisions ==
    /\ [](\A c \in inserted : hasher[c] \in hashes)
    /\ []((answer.op = "contains" /\ answer.cid \in inserted) => answer.ret)
    /\ [][/\ answer'.op = "insert"
             => (answer'.ret <=> hasher[answer'.cid] \notin hashes)
          /\ (answer'.op = "insert" /\ DistinctHashes(inserted \cup {answer'.cid}))
             => (answer'.ret <=> answer'.cid \notin inserted)
          /\ (answer'.op = "contains" /\ DistinctHashes(inserted \cup {answer'.cid}))
             => (answer'.ret <=> answer'.cid \in inserted)]_vars

\* An insert of a CID that was not inserted returned false because its hash
\* was stored for another CID, and contains is true for it.
C25_Witness ==
    /\ answer.op = "insert"
    /\ ~answer.ret
    /\ \E d \in inserted \ {answer.cid} : hasher[d] = hasher[answer.cid]
    /\ Cardinality(inserted) = Cardinality(hashes) + 1
    /\ hasher[answer.cid] \in hashes

(***************************************************************************)
(*                  Properties of the migration chains                     *)
(***************************************************************************)

\* The versions reached from the versions of S by one migration of the map.
Migrated(S) ==
    {migrations_map[j][2] : j \in {n \in 1..Len(migrations_map) : migrations_map[n][1] \in S}}

\* The versions reached from `start` by exactly n migrations, n >= 1.
RECURSIVE ReachedIn(_, _)
ReachedIn(start, n) == IF n = 1 THEN Migrated({start}) ELSE Migrated(ReachedIn(start, n - 1))

\* The numbers of steps of the non-empty paths from start to goal, up to
\* the length at which a path must repeat a version.
PathLengths(start, goal) == {n \in 1..MaxDbVersion : goal \in ReachedIn(start, n)}

\* The migrations form a path of the map from start to goal.
IsChain(ms, start, goal) ==
    /\ ms # <<>>
    /\ ms[1].from = start
    /\ ms[Len(ms)].to = goal
    /\ \A j \in 1..(Len(ms) - 1) : ms[j].to = ms[j + 1].from
    /\ \A j \in 1..Len(ms) :
          \E n \in 1..Len(migrations_map) : migrations_map[n] = <<ms[j].from, ms[j].to>>

\* The call returned a chain from its start to its goal with the fewest
\* steps a non-empty path between them has.
ReturnedShortest ==
    /\ chain.tag = "ok"
    /\ IsChain(chain.migrations, chain.start, chain.goal)
    /\ \A n \in PathLengths(chain.start, chain.goal) : Len(chain.migrations) <= n

\* C26 as stated: the call returns a chain of the fewest steps whenever the
\* map has a non-empty path from start to goal, and an error when it has
\* none.
C26_ReturnsShortestChain ==
    chain.tag # "none"
        => IF PathLengths(chain.start, chain.goal) # {}
           THEN ReturnedShortest
           ELSE chain.tag = "err"

\* C26, amended: for start # goal the call returns a chain of the fewest
\* steps when the map has a path from start to goal and an error when it
\* has none; for start = goal it returns an error whatever the map holds.
C26_ReturnsShortestChainToAnotherVersion ==
    chain.tag # "none"
        => IF chain.start # chain.goal /\ PathLengths(chain.start, chain.goal) # {}
           THEN ReturnedShortest
           ELSE chain.tag = "err"

\* The call returned an error for start = goal although the map leads from
\* that version back to it.
C26_Witness ==
    /\ chain.tag = "err"
    /\ chain.start = chain.goal
    /\ PathLengths(chain.start, chain.goal) # {}

(***************************************************************************)
(*                      Properties of the ChainIndex                       *)
(***************************************************************************)

\* `from` and the tipsets reached from it by repeatedly following parents().
RECURSIVE Ancestors(_)
Ancestors(k) == IF k = EmptyKeys THEN {} ELSE {k} \cup Ancestors(parents(k))

\* The ancestor of `from` (or `from`) with the smallest epoch that is >= to.
LowestAtOrAbove(from, to) ==
    CHOOSE a \in Ancestors(from) :
        /\ epoch(a) >= to
        /\ \A b \in Ancestors(from) : epoch(b) >= to => epoch(a) <= epoch(b)

Returned(op) == call.op = op

\* C6: whenever get_tipset_by_height(from, to) with to <= from.epoch returns
\* Ok(t), t.epoch >= to and t is `from` or an ancestor of `from`.
C6_ResultAtOrAboveAndAncestor ==
    (Returned("get_tipset_by_height") /\ call.to <= epoch(call.from) /\ call.ok)
        => (epoch(call.ts) >= call.to /\ call.ts \in Ancestors(call.from))

\* C7: on a chain without checkpointed tipsets (all of whose tipsets can be
\* loaded), get_tipset_by_height(from, to) with to <= from.epoch returns what
\* the direct parent walk returns, whatever earlier lookups left in the cache.
C7_SameAsDirectWalk ==
    (/\ Returned("get_tipset_by_height")
     /\ call.to <= epoch(call.from)
     /\ checkpoints = {}
     /\ missing = {})
        => LET w == get_tipset_by_height_without_cache(call.from, call.to, call.before)
           IN call.ok = w.ok /\ call.ts = w.ts

\* C8 as stated: walk_back(from, to) with to <= from.epoch returns `from`
\* without a load when to = from.epoch, and otherwise returns the ancestor of
\* `from` with the smallest epoch >= to.
C8_WalkBackAlwaysReturnsLowest ==
    (Returned("walk_back") /\ call.to <= epoch(call.from))
        => /\ call.ok
           /\ call.ts = LowestAtOrAbove(call.from, call.to)
           /\ (call.to = epoch(call.from) => call.ts = call.from /\ call.loads = 0)

\* C8 as amended: walk_back(from, to) with to <= from.epoch returns `from`
\* without a load when to = from.epoch; otherwise, when it returns Ok, the
\* result is the ancestor of `from` with the smallest epoch >= to, and it
\* returns an error only when to < 0 (the walk runs past genesis) or a
\* tipset below `from` cannot be loaded.
C8_WalkBackReturnsLowestWhenOk ==
    (Returned("walk_back") /\ call.to <= epoch(call.from))
        => /\ (call.to = epoch(call.from)
                  => call.ok /\ call.ts = call.from /\ call.loads = 0)
           /\ (call.ok => call.ts = LowestAtOrAbove(call.from, call.to))
           /\ (~call.ok => (call.to < 0
                              \/ (Ancestors(call.from) \ {call.from}) \cap missing # {}))

\* A walk over a null round: the tipset returned lies above the height asked for.
C8_Witness ==
    /\ Returned("walk_back")
    /\ call.ok
    /\ call.to < epoch(call.from)
    /\ epoch(call.ts) > call.to
    /\ call.loads > 1

\* C9: for to > from.epoch, walk_back and both public entry points fail
\* without loading a tipset and without touching the skip cache.
C9_FutureHeightFails ==
    (call.op # "idle" /\ call.to > epoch(call.from))
        => /\ ~call.ok
           /\ call.loads = 0
           /\ call.touched = 0
           /\ skip_cache = call.before

\* A lookup above the start point through the cached entry point, made when
\* the skip cache already holds entries.
C9_Witness ==
    /\ Returned("get_tipset_by_height")
    /\ call.to > epoch(call.from)
    /\ ~call.ok
    /\ call.before # <<>>

\* The entries a lookup constructed and the entries the skip cache holds.
Constructed == call.made \cup {skip_cache[i].lbe : i \in 1..Len(skip_cache)}

\* target_height <= parent_height < tipset.epoch, and `target` is an ancestor
\* of `tipset` at epoch target_height.
EntryInvariant(e) ==
    /\ e.target_height <= e.parent_height
    /\ e.parent_height < epoch(e.tipset)
    /\ e.target \in Ancestors(parents(e.tipset))
    /\ epoch(e.target) = e.target_height

\* C27 as stated: every LookbackEntry constructed by fill_cache satisfies
\* target_height <= parent_height < tipset.epoch, and its target is the key
\* of an ancestor of its tipset whose epoch is target_height.
C27_EveryEntrySatisfiesTheInvariant ==
    \A e \in Constructed : EntryInvariant(e)

\* C27 as amended: every LookbackEntry fill_cache constructs for a tipset
\* above genesis satisfies target_height <= parent_height < tipset.epoch with
\* a target that is an ancestor of the tipset at epoch target_height, and
\* only such entries are cached; the entry constructed for the genesis
\* tipset has parent_height = target_height = 0 and the empty key as target.
C27_EveryEntryAboveGenesisSatisfiesTheInvariant ==
    /\ \A e \in call.made :
          IF epoch(e.tipset) = 0
          THEN e = LookbackEntry(GenesisKey, 0, 0, EmptyKeys)
          ELSE EntryInvariant(e)
    /\ \A i \in 1..Len(skip_cache) :
          /\ epoch(skip_cache[i].lbe.tipset) > 0
          /\ skip_cache[i].lbe.tipset = skip_cache[i].key
          /\ EntryInvariant(skip_cache[i].lbe)

\* One lookup that constructed the genesis entry and an entry whose target
\* lies above the height fill_cache aimed at.
C27_Witness ==
    /\ Returned("get_tipset_by_height")
    /\ \E e \in call.made : epoch(e.tipset) = 0
    /\ \E e \in call.made :
          /\ epoch(e.tipset) > 0
          /\ e.target_height > round_height(epoch(e.tipset)) - SKIP_LENGTH
          /\ e \in {skip_cache[i].lbe : i \in 1..Len(skip_cache)}

WalkLoads(from, to) ==
    IF to >= epoch(from) THEN {}
    ELSE LET lowest == LowestAtOrAbove(from, to) IN
         {a \in Ancestors(from) \ {from} : epoch(a) >= to}
             \cup (IF epoch(lowest) = to THEN {} ELSE {parents(lowest)})

\* The keys fill_cache(tsk) asks the store for when no load fails.
FillLoads(tsk) ==
    IF tsk \notin Keys \/ epoch(tsk) = 0 THEN {tsk}
    ELSE LET r_height == round_height(epoch(tsk)) - SKIP_LENGTH IN
         {tsk, parents(tsk)}
             \cup (IF epoch(parents(tsk)) < r_height THEN {}
                   ELSE WalkLoads(parents(tsk), r_height))

\* Some key of S cannot be loaded.
Unloadable(S) == \E k \in S : k = EmptyKeys \/ k \in missing

\* The lookback loop goes on to the target of entry e.
Continues(e, to) ==
    /\ e.tipset \notin checkpoints
    /\ epoch(e.tipset) # to
    /\ e.parent_height >= to
    /\ to <= e.target_height

\* The keys the rest of a lookup asks the store for after the lookback loop
\* has examined the entries of call.seen, the last one included.
RestLoads ==
    LET rounded == LowestAtOrAbove(call.from, round_height(epoch(call.from))) IN
    IF call.seen = <<>> THEN FillLoads(rounded)
    ELSE LET final == call.seen[Len(call.seen)] IN
         IF final.tipset \in checkpoints THEN {GenesisKey}
         ELSE IF Continues(final, call.to) THEN FillLoads(final.target)
         ELSE WalkLoads(final.tipset, call.to)

\* C30: a load that fails makes the operation return an error: walk_back and
\* get_tipset_by_height_without_cache fail when a tipset on the walk cannot
\* be loaded, get_tipset_by_height fails when a tipset of its direct walk,
\* of the walk to the rounded start, or of the fill or walk that follows the
\* last entry examined cannot be loaded; a tipset returned is the start
\* point or a tipset the store holds; and the skip cache holds an entry for
\* a key only if every tipset fill_cache loads for that key can be loaded.
C30_LoadErrorsAreReturned ==
    /\ (call.op \in {"walk_back", "get_tipset_by_height_without_cache"}
           /\ Unloadable(WalkLoads(call.from, call.to)))
         => ~call.ok
    /\ (Returned("get_tipset_by_height") /\ call.to <= epoch(call.from))
         => IF epoch(call.from) - call.to <= SKIP_LENGTH
            THEN Unloadable(WalkLoads(call.from, call.to)) => ~call.ok
            ELSE /\ Unloadable(WalkLoads(call.from, round_height(epoch(call.from))))
                       => (~call.ok /\ call.seen = <<>> /\ skip_cache = call.before)
                 /\ (~Unloadable(WalkLoads(call.from, round_height(epoch(call.from))))
                        /\ Unloadable(RestLoads))
                       => ~call.ok
    /\ call.ok => (call.ts = call.from \/ (call.ts \in Keys /\ call.ts \notin missing))
    /\ \A i \in 1..Len(skip_cache) : ~Unloadable(FillLoads(skip_cache[i].key))
    /\ \A k \in Keys :
          (call.op # "idle" /\ LruFind(skip_cache, k) # 0 /\ LruFind(call.before, k) = 0)
              => \E e \in call.made : e.tipset = k

\* A lookup that failed in fill_cache after an earlier fill of the same
\* call had succeeded: the cache gained the first entry only.
C30_Witness ==
    /\ Returned("get_tipset_by_height")
    /\ ~call.ok
    /\ Len(call.seen) = 1
    /\ Continues(call.seen[1], call.to)
    /\ Unloadable(FillLoads(call.seen[1].target))
    /\ LruFind(skip_cache, call.seen[1].target) = 0
    /\ LruFind(skip_cache, call.seen[1].tipset) # 0
    /\ call.before = <<>>

\* What a finished call of the race returned, as (ok, tipset).
Outcome(f) == <<f.ok, f.ts>>

\* The result of the same call made alone on a ChainIndex with an empty cache.
Alone(f) == LET r == get_tipset_by_height(f.from, f.to, <<>>) IN <<r.ok, r.ts>>

\* The entry cached under key k, NoEntry when there is none.
CachedFor(cache, k) ==
    IF LruFind(cache, k) = 0 THEN NoEntry ELSE cache[LruFind(cache, k)].lbe

\* C29: under every interleaving of the racing get_tipset_by_height calls,
\* a finished call holds the result the same call returns when made alone,
\* and an entry written to the skip cache under a key that has an entry
\* already equals that entry.
C29_RacingLookupsAgreeWithSoloRuns ==
    /\ [](\A who \in Lookups :
             lookups[who].pc = "done" => Outcome(lookups[who]) = Alone(lookups[who]))
    /\ [][\A k \in Keys :
             (LruFind(skip_cache, k) # 0 /\ LruFind(skip_cache', k) # 0)
                 => CachedFor(skip_cache', k) = CachedFor(skip_cache, k)]_vars

\* Two calls that both missed the same key and both put an entry for it
\* have returned.
C29_Witness ==
    /\ lookups[1].pc = "done" /\ lookups[1].ok
    /\ lookups[2].pc = "done" /\ lookups[2].ok
    /\ lookups[1].to # lookups[2].to
    /\ lookups[1].filled \cap lookups[2].filled # {}

\* C31: the task yields after every 100 iterations of the lookback loop:
\* when it yields, exactly MAX_COUNT iterations have been executed since the
\* previous yield (since the start of the loop for the first yield).
C31_YieldsEveryHundredIterations ==
    scan.pc = "yielded" => scan.since = MAX_COUNT

\* The lock thread t asks for next, "none" when its next step takes no lock.
Wants(t) ==
    CASE thread[t].pc = "get_index" -> <<"index", "read">>
      [] thread[t].pc = "get_cache" -> <<"cache", "read">>
      [] thread[t].pc = "get_match" /\ thread[t].on_disk /\ thread[t].cached # NoBytes
            -> <<"cache", "write">>
      [] thread[t].pc = "put_first" -> <<put_lock_order[1], "write">>
      [] thread[t].pc = "put_second" -> <<put_lock_order[2], "write">>
      [] OTHER -> <<"none", "none">>

GuardsOf(name) == IF name = "index" THEN index_lock ELSE cache_lock

\* The threads whose guards keep thread t from the lock it asks for; for a
\* read also the writers that wait for the same lock, to which parking_lot's
\* fair policy makes a reader give way.
Blockers(t) ==
    LET w == Wants(t) IN
    IF w[1] = "none" THEN {}
    ELSE {g[1] : g \in {h \in GuardsOf(w[1]) : w[2] = "write" \/ h[2] = "write"}}
             \cup (IF w[2] = "read"
                   THEN {u \in Threads \ {t} : Wants(u) = <<w[1], "write">>}
                   ELSE {})

Waits(t) == Blockers(t) # {}

\* Every thread of S waits for a lock that only threads of S can free.
Deadlocked(S) == S # {} /\ \A t \in S : Waits(t) /\ Blockers(t) \subseteq S

\* C32: get and put_keyed take the index lock before the write-cache lock
\* (a thread that is granted a guard of the write cache holds a guard of the
\* index), and no set of calls, a single call included, waits for locks
\* that only calls of the set can release.
C32_LocksInOrderAndNoDeadlock ==
    /\ [][\A t \in Threads :
             (\E g \in cache_lock' \ cache_lock : g[1] = t)
                 => \E g \in index_lock' : g[1] = t]_vars
    /\ [](\A S \in SUBSET Threads : ~Deadlocked(S))

\* A get holds the index lock and asks for the write-cache lock while a
\* put_keyed waits for the index lock.
C32_Witness ==
    /\ thread[1].pc = "get_cache"
    /\ thread[2].pc = "put_first"
    /\ <<1, "read">> \in index_lock
    /\ Waits(2)

\* C33: no CID is both in the disk index and in the write cache, so no get
\* finds a CID on disk and cached, and handle_write_cache never meets an
\* indexed CID with an occupied cache entry.
C33_IndexAndWriteCacheAreDisjoint ==
    /\ \A k \in index : write_cache[k] = NoBytes
    /\ \A t \in Threads :
          /\ thread[t].pc = "get_match"
                => ~(thread[t].on_disk /\ thread[t].cached # NoBytes)
          /\ thread[t].pc = "put_handle"
                => ~(thread[t].k \in index /\ write_cache[thread[t].k] # NoBytes)

\* put_keyed of an indexed CID has returned, another CID is cached, and a
\* get of the indexed CID has read both maps.
C33_Witness ==
    /\ \E k \in Cids : k \notin index /\ write_cache[k] # NoBytes
    /\ \E t \in Threads :
          /\ thread[t].pc = "done"
          /\ thread[t].op = "put_keyed"
          /\ thread[t].k \in index
          /\ thread[t].tag = "Ok"
    /\ \E t \in Threads : thread[t].pc = "get_match" /\ thread[t].on_disk

\* No store holds for key k a value other than v (the key is the CID of v).
OnlyValue(k, v) ==
    /\ persistent[k] \in {NoValue, v}
    /\ \A i \in DOMAIN rolling : rolling[i][k] \in {NoValue, v}

\* C34: a get through a SplitStore returns the block last put through that
\* SplitStore, whatever get_writable_store and rolling_by_epoch calls for
\* other buckets were made since the put.
C34_SplitStoreReadsItsWrites ==
    (/\ last.op = "read"
     /\ last.index = 1
     /\ caller[1].wrote # <<>>
     /\ caller[1].wrote[1] = last.key
     /\ OnlyValue(last.key, caller[1].wrote[2]))
        => (last.found /\ last.ret = caller[1].wrote[2])

\* C35: in a cycle of collect_loop_passive, collect_once is called iff the
\* head epoch is not 0, the lock is free at the probe, both size queries
\* succeed, total_size > 0 and current_size * 3 > total_size; every other
\* cycle leaves the store and the invocations as they were and the loop
\* sleeps again.
C35_PassiveCycleCollectsIffDue ==
    [][/\ (passive.pc = "sleep" /\ passive' # passive)
            => (head # 0 /\ lock = {} /\ passive'.pc = "probe" /\ passive'.tipset = head)
       /\ (passive.pc = "sleep" /\ (head = 0 \/ lock # {})) => passive' = passive
       /\ (passive.pc # "probe" /\ passive'.pc = "collect") => passive.pc = "collect"
       /\ (passive.pc = "probe" /\ passive' # passive)
            => /\ passive'.pc = "collect"
                    <=> (/\ io_faults' = io_faults
                         /\ total_size_in_bytes > 0
                         /\ current_size_in_bytes * 3 > total_size_in_bytes)
               /\ passive'.pc = "collect"
                    => /\ ninv' = ninv + 1
                       /\ passive'.inv = ninv'
                       /\ inv'[ninv'].pc = "start"
                       /\ inv'[ninv'].tipset = passive.tipset
               /\ passive'.pc # "collect"
                    => /\ passive' = PassiveSleeps
                       /\ UNCHANGED <<head, parts, current, ninv, inv, chan, writer,
                                      gc_rx, responses>>]_vars

\* The passive loop has called collect_once at a head above genesis, after a
\* cycle in which the current partition was too small.
C35_Witness ==
    /\ passive.pc = "collect"
    /\ inv[passive.inv].origin = "passive"
    /\ inv[passive.inv].tipset > 0
    /\ current >= 2

\* C36: the walk and the write task of a collect_once never wait for each
\* other for ever: every invocation that has taken the lock returns Ok or an
\* error, also when the write task ends while the walk waits to send on the
\* full channel and when the walk fails while the write task waits to receive.
C36_CollectOnceAlwaysReturns ==
    \A i \in Invs :
        (Holder(i) \in lock) ~> (inv[i].pc = "done" /\ inv[i].result \in {"ok", "failed"})

\* The write task has failed at its first flush and dropped rx while the
\* channel was full and the walk stood at one more block to send.
C36_Witness ==
    \E i \in Invs :
        /\ inv[i].pc = "walk"
        /\ inv[i].tipset = 0
        /\ inv[i].pos >= ChannelCapacity + BufferBudget
        /\ writer[i].state \in {"err", "panicked"}
        /\ writer[i].written = 0
        /\ parts[current] \cap BlocksOf(0) = {}
        /\ needs_copy(walk_snapshot(inv[i].tipset, RecentRoots)[inv[i].pos])

\* The number of times the walk has processed header c.
Processed(c) ==
    Cardinality({j \in 1..Len(snapshot.log) : snapshot.log[j] = Logged("header", c)})

C38_LookupTerminates ==
    /\ [](\A k \in Keys : k # GenesisKey => epoch(parents(k)) < epoch(k))
    /\ [][\A who \in Lookups :
             (/\ lookups[who].pc \in {"get", "fill"}
              /\ lookups'[who].pc = "get"
              /\ lookups'[who] # lookups[who]
              /\ lookups'[who].cur # EmptyKeys)
                 => epoch(lookups'[who].cur) < epoch(lookups[who].cur)]_vars
    /\ (missing = {} /\ InLoop /\ lookups[1].to <= epoch(lookups[1].from))
            ~> (lookups[1].pc = "done")

\* A call from the head down to genesis has returned after filling the
\* entries of two iterations, on a chain without checkpoints.
C38_Witness ==
    /\ missing = {}
    /\ checkpoints = {}
    /\ \E who \in Lookups :
          /\ lookups[who].pc = "done"
          /\ lookups[who].ok
          /\ lookups[who].to <= epoch(lookups[who].from)
          /\ epoch(lookups[who].ts) = lookups[who].to
          /\ Cardinality(lookups[who].filled) >= 2

\* The partition of the cache whose last access is the latest.
MostRecent == last_valid_access[Len(last_valid_access)]

\* C39 as claimed: after any read, exists, write or delete through a
\* TrackingStore, found or not, that store's last access is the latest.
C39_EveryOperationIsTracked ==
    last.op \in TrackingOps => MostRecent = last.index

\* C39: a write or a delete through a TrackingStore, and a read or an exists
\* that finds the key, make that store's last access the latest; a read or
\* an exists that does not find the key leaves every last access as it was.
C39_WritesAndHitsAreTracked ==
    /\ []((last.op \in {"tracking_write", "tracking_delete"}
              \/ (last.op \in {"tracking_read", "tracking_exists"} /\ last.found))
            => MostRecent = last.index)
    /\ [][(last'.op \in {"tracking_read", "tracking_exists"} /\ ~last'.found)
             => last_valid_access' = last_valid_access]_vars

\* A read through the handle of a partition that lacks the key has returned
\* None, and another partition is still the one accessed last.
C39_Witness ==
    /\ last.op = "tracking_read"
    /\ ~last.found
    /\ last.index \in partition_cache
    /\ MostRecent # last.index

\* C40: when the flush of a partition fails while get_writable_store evicts
\* it, the failure is logged and nothing else changes: the partition is
\* removed from the cache, the requested partition is inserted, and the
\* caller gets Ok with the handle of the partition it asked for.
C40_FlushFailureDoesNotBlockEviction ==
    [][(last'.op = "get_writable_store" /\ last'.warned # {} /\ last' # last)
          => /\ last'.warned \cap partition_cache' = {}
             /\ last'.warned \subseteq flushed'
             /\ last'.index \in partition_cache'
             /\ Cardinality(partition_cache') <= capacity
             /\ \E t \in Callers :
                   /\ caller[t].pc = "miss"
                   /\ caller[t].index = last'.index
                   /\ caller'[t].pc = "idle"
                   /\ caller'[t].handle = last'.index
                   /\ ~caller'[t].stale]_vars

\* A get_writable_store has returned after the flush of the partition it
\* evicted failed.
C40_Witness ==
    /\ last.op = "get_writable_store"
    /\ last.warned # {}
    /\ last.index \in partition_cache
    /\ \E t \in Callers : caller[t].pc = "idle" /\ caller[t].handle = last.index

====
